---------------------------- MODULE Spec2Model ----------------------------
(***************************************************************************)
(* Model of the analytics ETL pipeline of RefactorTrack                    *)
(* (src/backend/services/analytics): ETLService (extract, transform, load, *)
(* run_etl_pipeline) together with the MetricsProcessor it owns, and the   *)
(* AnalyticsService (initialize, get_recruitment_metrics).                 *)
(*                                                                         *)
(* Every caller performs one call of run_etl_pipeline.  The steps of a     *)
(* call are the stretches of code between two awaits; what the code does   *)
(* between two awaits is one action.                                       *)
(*                                                                         *)
(* Spec is the pipeline; SpecAnyOrder is one run of it whose chunk tasks    *)
(* complete in any order; SpecProcessor is a caller that builds a          *)
(* DateRange and calls the MetricsProcessor directly on every short list   *)
(* of records; SpecService is an AnalyticsService that is initialized and  *)
(* then serves requests; SpecOverlap is the extracts of two runs with      *)
(* their steps interleaved.                                                *)
(***************************************************************************)
EXTENDS Integers, Sequences, FiniteSets, TLC

(***************************************************************************)
(* Bounds of the model.                                                    *)
(***************************************************************************)
MaxTime == 2          \* the clock runs from 0 to MaxTime
MaxRows == 2          \* rows the upstream requisitions table can hold
PageSize == 1         \* records per page of an upstream cursor (chunk_size)
Workers == 2          \* parallel_workers handed to transform_metrics_data
MaxRecords == 3       \* records handed to the MetricsProcessor by a direct call
MaxCalls == 3         \* direct calls of process_recruitment_metrics

(***************************************************************************)
(* Program constants.  The two time-to-live values are 3600 s and 300 s in *)
(* the source; the model keeps their order on a coarser clock.             *)
(***************************************************************************)
ETL_CACHE_TTL == 2    \* TTLCache(maxsize=100, ttl=3600)
METRICS_CACHE_TTL == 1 \* MetricsProcessor(cache_ttl_seconds=300)
MAX_RETRIES == 3      \* analytics_service.MAX_RETRIES
\* chunk_size = 10000 in process_recruitment_metrics; the model keeps the
\* loop and makes its chunks two records long.
METRICS_CHUNK_SIZE == 2

Callers == {"a", "b"}

None == <<>>
Some(x) == <<x>>

(***************************************************************************)
(* Inputs.  A DateRange is built only with start_date <= end_date.         *)
(***************************************************************************)
Ranges ==
    { [start_date |-> 0, end_date |-> 0], [start_date |-> 0, end_date |-> 1] }
\* The date ranges of a direct call of analyze_time_to_hire.
AnalysisRanges ==
    { [start_date |-> 0, end_date |-> 7], [start_date |-> 0, end_date |-> 35] }
\* The arguments a direct caller hands to DateRange(...): those ranges, the
\* same with the two dates exchanged, and the one-day range at their start.
RangeArgs ==
    AnalysisRanges
    \cup { [start_date |-> r.end_date, end_date |-> r.start_date] : r \in AnalysisRanges }
    \cup { [start_date |-> r.start_date, end_date |-> r.start_date] : r \in AnalysisRanges }
\* No DateRange has been built.
NoRange == [start_date |-> 0 - 1, end_date |-> 0 - 1]

\* Requisition rows an upstream writer may insert.  numeric = FALSE stands for
\* a row whose time_to_hire cannot be converted to float32.
SampleReqs ==
    { [status |-> "filled", created_at |-> 0, time_to_hire |-> 3, numeric |-> TRUE],
      [status |-> "open",   created_at |-> 1, time_to_hire |-> 0, numeric |-> FALSE] }

\* Records of a direct call of the MetricsProcessor.  created_at is a day
\* number; day 0 is a Sunday and the first day of a month.
MetricSamples ==
    SampleReqs \cup
    { [status |-> "open",   created_at |-> 1,  time_to_hire |-> 0, numeric |-> TRUE],
      [status |-> "filled", created_at |-> 7,  time_to_hire |-> 1, numeric |-> TRUE],
      [status |-> "open",   created_at |-> 35, time_to_hire |-> 5, numeric |-> TRUE] }

\* The document store's two collections do not change during a check.
srcCands == << [skills |-> {"python"}, created_at |-> 0],
               [skills |-> {"java"},   created_at |-> 1] >>
srcComms == << [timestamp |-> 0] >>

VARIABLES
    now,              \* wall clock read by the caches
    srcReqs,          \* upstream relational table requisitions JOIN clients
    etlCache,         \* ETLService._cache
    mpCache,          \* MetricsProcessor._cache
    mpStamps,         \* MetricsProcessor._cache_timestamps
    processing_stats, \* MetricsProcessor._processing_stats
    pgMetrics,        \* sink table analytics.recruitment_metrics
    pgSkills,         \* sink table analytics.skill_metrics
    esDocs,           \* sink index recruitment_analytics
    pc,               \* stage of each caller's run_etl_pipeline
    step,             \* position inside the stage
    range,            \* date_range argument of the run
    reads,            \* upstream read calls made by the run's extract
    requisitions,     \* local list of extract_recruitment_data
    candidates,       \* local list of extract_recruitment_data
    communications,   \* local list of extract_recruitment_data
    raw_data,         \* run_etl_pipeline's raw_data
    tasks,            \* the chunk tasks created by transform_metrics_data
    processed_data,   \* run_etl_pipeline's processed_data
    txn,              \* rows written inside the open relational transaction
    bulkSent,         \* bulk requests the run's load sent to the search sink
    attempts,         \* invocations of each stage made by the run
    delays,           \* backoff sleeps requested by the run
    outcome,          \* how run_etl_pipeline ended
    raw_metrics,      \* records handed to the MetricsProcessor by a direct call
    date_range,       \* date_range handed to analyze_time_to_hire by a direct call
    mp_method,        \* the MetricsProcessor method called last
    mp_result,        \* what that call returned or raised
    mp_pc,            \* position of a direct call in process_recruitment_metrics
    range_args,       \* start_date and end_date a direct caller builds a DateRange from
    svc_pc,           \* position of the AnalyticsService: in initialize or in a request
    init_log,         \* the dependency calls AnalyticsService.initialize has made
    db_health,        \* _check_service_health's db_health
    es_health,        \* _check_service_health's es_health
    max_retries,      \* AnalyticsService._config['max_retries']
    svc_cache,        \* AnalyticsService._cache
    svc_args,         \* start_date, end_date, metric_types of the request
    retries,          \* _get_metrics_with_retry's retries
    model_calls,      \* calls of AnalyticsModel.get_metrics made by the request
    sleeps,           \* asyncio.sleep delays requested by the request
    svc_result,       \* what the request, or initialize, returned or raised
    model_returned,   \* the values AnalyticsModel.get_metrics has returned
    requests,         \* calls of get_recruitment_metrics made so far
    bundle_ids        \* identity of the bundle object each run's raw_data and each
                      \* cache entry refers to: the caller whose extract created it

vars == << now, srcReqs, etlCache, mpCache, mpStamps, processing_stats,
           pgMetrics, pgSkills, esDocs, pc, step, range, reads, requisitions,
           candidates, communications, raw_data, tasks, processed_data, txn,
           bulkSent, attempts, delays, outcome, raw_metrics, date_range,
           mp_method, mp_result, mp_pc, range_args, svc_pc, init_log, db_health,
           es_health, max_retries, svc_cache, svc_args, retries, model_calls, sleeps,
           svc_result, model_returned, requests, bundle_ids >>

\* The state of the pipeline runs and the state of a direct call.
etlVars == << srcReqs, etlCache, pgMetrics, pgSkills, esDocs, pc, step, range,
              reads, requisitions, candidates, communications, raw_data, tasks,
              processed_data, txn, bulkSent, attempts, delays, outcome,
              bundle_ids >>
\* The state of the AnalyticsService.
svcVars == << svc_pc, init_log, db_health, es_health, max_retries, svc_cache, svc_args,
             retries, model_calls, sleeps, svc_result, model_returned, requests >>
directVars == << raw_metrics, date_range, mp_method, mp_result, mp_pc,
                range_args >>
callVars == << raw_metrics, date_range, mp_method, mp_result, mp_pc,
              range_args, svcVars, bundle_ids >>

envVars == << now, srcReqs >>
mpVars == << mpCache, mpStamps, processing_stats >>
sinkVars == << pgMetrics, pgSkills, esDocs >>
extractLocals == << requisitions, candidates, communications >>
loadLocals == << txn, bulkSent >>

(***************************************************************************)
(* Errors and outcomes.                                                    *)
(***************************************************************************)
NoError == [stage |-> "none", cause |-> "none"]
NoOutcome == [kind |-> "none", success |-> FALSE, error |-> NoError]

\* etl_service.py:125-126  raise Exception(f"Error extracting recruitment data: ...")
ExtractError(cause) == [stage |-> "extract", cause |-> cause]
\* etl_service.py:174-175  raise Exception(f"Error transforming metrics data: ...")
TransformError(cause) == [stage |-> "transform", cause |-> cause]
\* etl_service.py:228-229  raise Exception(f"Error loading analytics data: ...")
LoadError(cause) == [stage |-> "load", cause |-> cause]

\* Faulty variant of RunRaise: the run wraps the stage's error in one of its own.
RunRaiseWrapped(e) ==
    [kind |-> "raised", success |-> FALSE,
     error |-> [stage |-> "pipeline", cause |-> e.cause]]

\* etl_service.py:273-276  except Exception: print(...); raise
RunRaise(e) == [kind |-> "raised", success |-> FALSE, error |-> e]
\* etl_service.py:271  return success
RunReturn(success) == [kind |-> "returned", success |-> success, error |-> NoError]

(***************************************************************************)
(* cachetools.TTLCache as ETLService uses it (maxsize=100 is never reached *)
(* with the ranges of the model).                                          *)
(***************************************************************************)
CacheKey(r) == << "recruitment_data", r.start_date, r.end_date >>
EtlKeys == { CacheKey(r) : r \in Ranges }

\* cache_key in self._cache
CacheContains(c, k, t) == c[k] # None /\ t < c[k][1].expires
\* self._cache[cache_key]
CacheGet(c, k) == c[k][1].value
\* self._cache[cache_key] = value  (expired entries are purged first)
CacheSet(c, k, v, t) ==
    [ kk \in DOMAIN c |->
        IF kk = k THEN Some([value |-> v, expires |-> t + ETL_CACHE_TTL])
        ELSE IF c[kk] # None /\ ~(t < c[kk][1].expires) THEN None
        ELSE c[kk] ]

(***************************************************************************)
(* Upstream queries.                                                       *)
(***************************************************************************)
InRange(d, r) == r.start_date <= d /\ d <= r.end_date
ReqRows(r) == SelectSeq(srcReqs, LAMBDA x : InRange(x.created_at, r))
CandDocs(r) == SelectSeq(srcCands, LAMBDA x : InRange(x.created_at, r))
CommDocs(r) == SelectSeq(srcComms, LAMBDA x : InRange(x.timestamp, r))

Min(a, b) == IF a <= b THEN a ELSE b
Max(a, b) == IF a >= b THEN a ELSE b
\* The next page of a cursor over rows, of which got have been fetched.
NextPage(rows, got) ==
    SubSeq(rows, Len(got) + 1, Min(Len(rows), Len(got) + PageSize))

Bundle(rs, cs, ms) ==
    [requisitions |-> rs, candidates |-> cs, communications |-> ms]

InitEtl ==
    /\ now = 0
    /\ srcReqs = << >>
    /\ etlCache = [k \in EtlKeys |-> None]
    /\ mpCache = << >>
    /\ mpStamps = << >>
    /\ processing_stats = [cache_hits |-> 0, cache_misses |-> 0, total_processed |-> 0]
    /\ pgMetrics = {}
    /\ pgSkills = {}
    /\ esDocs = {}
    /\ bundle_ids = [held |-> [p \in Callers |-> "none"],
                     cached |-> [k \in EtlKeys |-> "none"]]
    /\ pc = [p \in Callers |-> "Idle"]
    /\ step = [p \in Callers |-> "none"]
    /\ range = [p \in Callers |-> CHOOSE r \in Ranges : TRUE]
    /\ reads = [p \in Callers |-> [pg |-> 0, mongo |-> 0]]
    /\ requisitions = [p \in Callers |-> << >>]
    /\ candidates = [p \in Callers |-> << >>]
    /\ communications = [p \in Callers |-> << >>]
    /\ raw_data = [p \in Callers |-> None]
    /\ tasks = [p \in Callers |-> << >>]
    /\ processed_data = [p \in Callers |-> None]
    /\ txn = [p \in Callers |-> None]
    /\ bulkSent = [p \in Callers |-> 0]
    /\ attempts = [p \in Callers |-> [extract |-> 0, transform |-> 0, load |-> 0]]
    /\ delays = [p \in Callers |-> << >>]
    /\ outcome = [p \in Callers |-> NoOutcome]

\* No direct call of the MetricsProcessor is made beside the pipeline runs.
NoCall == [ok |-> FALSE, error |-> "none", metrics |-> << >>, analytics |-> << >>]

(***************************************************************************)
(* The AnalyticsService: its inputs, its cache and its initial state.      *)
(***************************************************************************)
\* CACHE_TTL (15 minutes) in clock ticks.
SVC_CACHE_TTL == 1
\* Calls of get_recruitment_metrics made in one behaviour.
MaxRequests == 2
\* The dates and the metric_types arguments of a request; "None" is the
\* default metric_types=None.
SvcDates == 0..1
MetricTypeLists == { "None", "['time_to_hire']" }
SvcArgs ==
    [start_date : SvcDates, end_date : SvcDates, metric_types : MetricTypeLists]
\* The values config['max_retries'] overrides MAX_RETRIES with.
RetryConfigs == (0 - 1)..MAX_RETRIES

\* Faulty variant of SvcCacheKey: the key leaves the metric types out.
SvcCacheKeyDatesOnly(start_date, end_date, metric_types) ==
    << "metrics", start_date, end_date >>
\* Line 106: f"metrics_{start_date}_{end_date}_{str(metric_types)}".  The
\* formatted dates hold no underscore, so the string has the same parts as
\* this tuple.
SvcCacheKey(start_date, end_date, metric_types) ==
    << "metrics", start_date, end_date, metric_types >>
\* The keys a cache may hold: the strings made of the prefix and of two
\* dates, with or without metric types.
SvcKeys ==
    { << "metrics", a.start_date, a.end_date, a.metric_types >> : a \in SvcArgs }
    \cup { << "metrics", a.start_date, a.end_date >> : a \in SvcArgs }

\* self._cache[cache_key] = metrics, with TTLCache(ttl=CACHE_TTL).
SvcCacheSet(c, k, v, t) ==
    [ kk \in DOMAIN c |->
        IF kk = k THEN Some([value |-> v, expires |-> t + SVC_CACHE_TTL])
        ELSE IF c[kk] # None /\ ~(t < c[kk][1].expires) THEN None
        ELSE c[kk] ]

\* What AnalyticsModel.get_metrics(date_range, metric_types) returns when it
\* returns: the metrics of that range and those types as the store holds
\* them at that time.
GetMetrics(start_date, end_date, metric_types, t) ==
    [kind |-> "metrics", start_date |-> start_date, end_date |-> end_date,
     metric_types |-> metric_types, at |-> t]
\* Python's None, the value of a function that ends without a return.
NoneValue ==
    [kind |-> "None", start_date |-> 0, end_date |-> 0, metric_types |-> "None",
     at |-> 0]

NoSvcResult == [kind |-> "none", value |-> NoneValue, error |-> "none", attempt |-> 0]
SvcReturned(v) == [kind |-> "returned", value |-> v, error |-> "none", attempt |-> 0]
\* attempt numbers the call of the model that raised the exception.
SvcRaised(e, n) == [kind |-> "raised", value |-> NoneValue, error |-> e, attempt |-> n]

NoHealth == [postgres |-> "unknown", mongodb |-> "unknown"]
DbStatuses == { "healthy", "unhealthy" }
EsStatuses == { "green", "yellow" }

\* AnalyticsService.__init__, lines 43-68, with config = {'max_retries': m}.
InitSvcWith(m) ==
    /\ svc_pc = "new"
    /\ init_log = << >>
    /\ db_health = NoHealth
    /\ es_health = "unknown"
    /\ max_retries = m
    /\ svc_cache = [k \in SvcKeys |-> None]
    /\ svc_args = CHOOSE a \in SvcArgs : TRUE
    /\ retries = 0
    /\ model_calls = 0
    /\ sleeps = << >>
    /\ svc_result = NoSvcResult
    /\ model_returned = { }
    /\ requests = 0
InitSvc == InitSvcWith(MAX_RETRIES)

Init ==
    /\ InitEtl
    /\ raw_metrics = << >>
    /\ date_range = CHOOSE r \in Ranges : TRUE
    /\ mp_method = "none"
    /\ mp_result = NoCall
    /\ mp_pc = "idle"
    /\ range_args = date_range
    /\ InitSvc

(***************************************************************************)
(* The environment: time passes, an upstream writer inserts a requisition. *)
(* A run sees the clock only where it reads a cache and the table only     *)
(* through its requisitions cursor, so the environment moves between runs  *)
(* and right before those steps; a move at any other moment leads to the   *)
(* same states.                                                            *)
(***************************************************************************)
ReadsClock(p) == step[p] \in {"cache", "communications", "gather"}
ReadsTable(p) == step[p] = "requisitions"
Busy(p) == pc[p] \in {"Extracting", "Transforming", "Loading"}

Tick ==
    /\ now < MaxTime
    /\ \A p \in Callers : Busy(p) => ReadsClock(p)
    /\ now' = now + 1
    /\ UNCHANGED << srcReqs, etlCache, mpVars, sinkVars, pc, step, range, reads,
                    extractLocals, raw_data, tasks, processed_data, loadLocals,
                    attempts, delays, outcome >>
    /\ UNCHANGED callVars

SourceInsert ==
    /\ Len(srcReqs) < MaxRows
    /\ \A p \in Callers : Busy(p) => ReadsTable(p)
    /\ \E rec \in SampleReqs : srcReqs' = Append(srcReqs, rec)
    /\ UNCHANGED << now, etlCache, mpVars, sinkVars, pc, step, range, reads,
                    extractLocals, raw_data, tasks, processed_data, loadLocals,
                    attempts, delays, outcome >>
    /\ UNCHANGED callVars

(***************************************************************************)
(* run_etl_pipeline, etl_service.py:231-276.                               *)
(***************************************************************************)
\* The run ends by the exception e leaving run_etl_pipeline (lines 273-276).
Fail(p, e) ==
    /\ pc' = [pc EXCEPT ![p] = "Failed"]
    /\ step' = [step EXCEPT ![p] = "none"]
    /\ outcome' = [outcome EXCEPT ![p] = RunRaise(e)]

\* A caller invokes run_etl_pipeline(date_range); the run invokes
\* extract_recruitment_data (lines 246-254, 69-70).
Call(p) ==
    /\ pc[p] = "Idle"
    /\ \E r \in Ranges : range' = [range EXCEPT ![p] = r]
    /\ pc' = [pc EXCEPT ![p] = "Extracting"]
    /\ step' = [step EXCEPT ![p] = "cache"]
    /\ attempts' = [attempts EXCEPT ![p].extract = @ + 1]
    /\ UNCHANGED << envVars, etlCache, mpVars, sinkVars, reads, extractLocals,
                    raw_data, tasks, processed_data, loadLocals, delays, outcome >>
    /\ UNCHANGED callVars

(***************************************************************************)
(* extract_recruitment_data, etl_service.py:54-126.                        *)
(***************************************************************************)
\* Lines 72-74: a cached bundle is returned at once.
ExtractHit(p) ==
    /\ pc[p] = "Extracting" /\ step[p] = "cache"
    /\ CacheContains(etlCache, CacheKey(range[p]), now)
    /\ raw_data' = [raw_data EXCEPT ![p] = Some(CacheGet(etlCache, CacheKey(range[p])))]
    /\ bundle_ids' = [bundle_ids EXCEPT !.held[p] = bundle_ids.cached[CacheKey(range[p])]]
    /\ pc' = [pc EXCEPT ![p] = "Transforming"]
    /\ step' = [step EXCEPT ![p] = "split"]
    /\ attempts' = [attempts EXCEPT ![p].transform = @ + 1]
    /\ UNCHANGED << envVars, etlCache, mpVars, sinkVars, range, reads, extractLocals,
                    tasks, processed_data, loadLocals, delays, outcome >>
    /\ UNCHANGED << directVars, svcVars >>

\* Lines 73, 76: a miss enters the try block.
ExtractMiss(p) ==
    /\ pc[p] = "Extracting" /\ step[p] = "cache"
    /\ ~CacheContains(etlCache, CacheKey(range[p]), now)
    /\ step' = [step EXCEPT ![p] = "connect"]
    /\ UNCHANGED << envVars, etlCache, mpVars, sinkVars, pc, range, reads,
                    extractLocals, raw_data, tasks, processed_data, loadLocals,
                    attempts, delays, outcome >>
    /\ UNCHANGED callVars

\* Faulty variant of ExtractRaise: what was collected before the failure is
\* cached.
ExtractRaiseCachesPartial(p, cause) ==
    /\ Fail(p, ExtractError(cause))
    /\ etlCache' = CacheSet(etlCache, CacheKey(range[p]),
                            Bundle(requisitions[p], candidates[p], communications[p]), now)
    /\ requisitions' = [requisitions EXCEPT ![p] = << >>]
    /\ candidates' = [candidates EXCEPT ![p] = << >>]
    /\ communications' = [communications EXCEPT ![p] = << >>]
    /\ bundle_ids' = [bundle_ids EXCEPT !.cached[CacheKey(range[p])] = "partial"]
    /\ UNCHANGED << raw_data, attempts >>

\* The exception handler of extract (lines 125-126) seen from the run.
ExtractRaise(p, cause) ==
    /\ Fail(p, ExtractError(cause))
    /\ requisitions' = [requisitions EXCEPT ![p] = << >>]
    /\ candidates' = [candidates EXCEPT ![p] = << >>]
    /\ communications' = [communications EXCEPT ![p] = << >>]
    /\ UNCHANGED << etlCache, raw_data, attempts, bundle_ids >>

\* Lines 78-83: get_pg_pool, get_mongo_db, pg_pool.acquire.
ExtractConnect(p) ==
    /\ pc[p] = "Extracting" /\ step[p] = "connect"
    /\ \/ /\ step' = [step EXCEPT ![p] = "requisitions"]
          /\ UNCHANGED << pc, outcome, extractLocals, etlCache, raw_data, attempts >>
       \/ ExtractRaise(p, "connect")
    /\ UNCHANGED << envVars, mpVars, sinkVars, range, reads, tasks, processed_data,
                    loadLocals, delays >>
    /\ UNCHANGED callVars

\* Lines 90-91: one page of the requisitions cursor.
ExtractRequisitions(p) ==
    /\ pc[p] = "Extracting" /\ step[p] = "requisitions"
    /\ reads' = [reads EXCEPT ![p].pg = @ + 1]
    /\ \/ LET got == requisitions[p] \o NextPage(ReqRows(range[p]), requisitions[p])
          IN /\ requisitions' = [requisitions EXCEPT ![p] = got]
             /\ step' = [step EXCEPT ![p] =
                           IF Len(got) >= Len(ReqRows(range[p]))
                           THEN "candidates" ELSE "requisitions"]
             /\ UNCHANGED << pc, outcome, candidates, communications, etlCache,
                             raw_data, attempts >>
       \/ ExtractRaise(p, "requisitions")
    /\ UNCHANGED << envVars, mpVars, sinkVars, range, tasks, processed_data,
                    loadLocals, delays >>
    /\ UNCHANGED callVars

\* Lines 95-102: one batch of the candidates cursor.
ExtractCandidates(p) ==
    /\ pc[p] = "Extracting" /\ step[p] = "candidates"
    /\ reads' = [reads EXCEPT ![p].mongo = @ + 1]
    /\ \/ LET got == candidates[p] \o NextPage(CandDocs(range[p]), candidates[p])
          IN /\ candidates' = [candidates EXCEPT ![p] = got]
             /\ step' = [step EXCEPT ![p] =
                           IF Len(got) >= Len(CandDocs(range[p]))
                           THEN "communications" ELSE "candidates"]
             /\ UNCHANGED << pc, outcome, requisitions, communications, etlCache,
                             raw_data, attempts >>
       \/ ExtractRaise(p, "candidates")
    /\ UNCHANGED << envVars, mpVars, sinkVars, range, tasks, processed_data,
                    loadLocals, delays >>
    /\ UNCHANGED callVars

\* Faulty variant of ExtractStore: the bundle is cached before the
\* communications are put into it.
ExtractStoreCachesEarly(p, ms) ==
    LET extracted_data == Bundle(requisitions[p], candidates[p], ms)
    IN /\ etlCache' = CacheSet(etlCache, CacheKey(range[p]),
                               Bundle(requisitions[p], candidates[p], << >>), now)
       /\ raw_data' = [raw_data EXCEPT ![p] = Some(extracted_data)]
       /\ bundle_ids' = [bundle_ids EXCEPT !.held[p] = p,
                                           !.cached[CacheKey(range[p])] = "partial"]
       /\ pc' = [pc EXCEPT ![p] = "Transforming"]
       /\ step' = [step EXCEPT ![p] = "split"]
       /\ attempts' = [attempts EXCEPT ![p].transform = @ + 1]
       /\ requisitions' = [requisitions EXCEPT ![p] = << >>]
       /\ candidates' = [candidates EXCEPT ![p] = << >>]
       /\ communications' = [communications EXCEPT ![p] = << >>]
       /\ UNCHANGED outcome

\* Faulty variant of ExtractStore: an entry another call has stored in the
\* meantime is kept (setdefault), the bundle of this call is only returned.
ExtractStoreKeepsFirst(p, ms) ==
    LET extracted_data == Bundle(requisitions[p], candidates[p], ms)
        kept == CacheContains(etlCache, CacheKey(range[p]), now)
    IN /\ etlCache' = IF kept THEN etlCache
                      ELSE CacheSet(etlCache, CacheKey(range[p]), extracted_data, now)
       /\ raw_data' = [raw_data EXCEPT ![p] = Some(extracted_data)]
       /\ bundle_ids' = [bundle_ids EXCEPT
                           !.held[p] = p,
                           !.cached[CacheKey(range[p])] = IF kept THEN @ ELSE p]
       /\ pc' = [pc EXCEPT ![p] = "Transforming"]
       /\ step' = [step EXCEPT ![p] = "split"]
       /\ attempts' = [attempts EXCEPT ![p].transform = @ + 1]
       /\ requisitions' = [requisitions EXCEPT ![p] = << >>]
       /\ candidates' = [candidates EXCEPT ![p] = << >>]
       /\ communications' = [communications EXCEPT ![p] = << >>]
       /\ UNCHANGED outcome

\* Lines 115-123: the bundle is assembled, cached and returned.
ExtractStore(p, ms) ==
    LET extracted_data == Bundle(requisitions[p], candidates[p], ms)
    IN /\ etlCache' = CacheSet(etlCache, CacheKey(range[p]), extracted_data, now)
       /\ raw_data' = [raw_data EXCEPT ![p] = Some(extracted_data)]
       /\ bundle_ids' = [bundle_ids EXCEPT !.held[p] = p,
                                           !.cached[CacheKey(range[p])] = p]
       /\ pc' = [pc EXCEPT ![p] = "Transforming"]
       /\ step' = [step EXCEPT ![p] = "split"]
       /\ attempts' = [attempts EXCEPT ![p].transform = @ + 1]
       /\ requisitions' = [requisitions EXCEPT ![p] = << >>]
       /\ candidates' = [candidates EXCEPT ![p] = << >>]
       /\ communications' = [communications EXCEPT ![p] = << >>]
       /\ UNCHANGED outcome

\* Lines 106-123: one batch of the communications cursor; the last one ends
\* the extraction.
ExtractCommunications(p) ==
    /\ pc[p] = "Extracting" /\ step[p] = "communications"
    /\ reads' = [reads EXCEPT ![p].mongo = @ + 1]
    /\ \/ LET got == communications[p] \o NextPage(CommDocs(range[p]), communications[p])
          IN IF Len(got) >= Len(CommDocs(range[p]))
             THEN ExtractStore(p, got)
             ELSE /\ communications' = [communications EXCEPT ![p] = got]
                  /\ UNCHANGED << pc, step, outcome, requisitions, candidates,
                                  etlCache, raw_data, attempts, bundle_ids >>
       \/ ExtractRaise(p, "communications")
    /\ UNCHANGED << envVars, mpVars, sinkVars, range, tasks, processed_data,
                    loadLocals, delays >>
    /\ UNCHANGED << directVars, svcVars >>

(***************************************************************************)
(* MetricsProcessor, data_processing.py.                                   *)
(***************************************************************************)
RECURSIVE SumDays(_)
SumDays(records) ==
    IF records = << >> THEN 0 ELSE Head(records).time_to_hire + SumDays(Tail(records))

MinOver(S) == CHOOSE x \in S : \A y \in S : x <= y
MaxOver(S) == CHOOSE x \in S : \A y \in S : y <= x

Put(f, k, v) == [x \in DOMAIN f \cup {k} |-> IF x = k THEN v ELSE f[x]]

\* Faulty variant of MetricsKey: the key names the level and not the records.
MetricsKeyLevelOnly(records, level) == << "metrics", level, << >> >>

\* Line 69: f"metrics_{aggregation_level}_{hash(str(raw_metrics))}"
MetricsKey(records, level) == << "metrics", level, records >>

\* Faulty variant of IsCacheValid: an entry as old as the time-to-live is
\* still valid.
IsCacheValidInclusive(stamps, k, t) ==
    k \in DOMAIN stamps /\ t - stamps[k] <= METRICS_CACHE_TTL

\* _is_cache_valid, lines 250-264.
IsCacheValid(stamps, k, t) == k \in DOMAIN stamps /\ t - stamps[k] < METRICS_CACHE_TTL

\* Faulty variant of UpdateCache: the value is written and the timestamp of
\* an entry that was there is kept.
UpdateCacheKeepsStamp(cache, stamps, k, v, t) ==
    [ cache |-> Put(cache, k, v),
      stamps |-> IF k \in DOMAIN stamps THEN stamps ELSE Put(stamps, k, t) ]

\* _update_cache, lines 266-275: the value and the time of the write.
UpdateCache(cache, stamps, k, v, t) ==
    [ cache |-> Put(cache, k, v), stamps |-> Put(stamps, k, t) ]

\* Lines 79-84 and 140-144: astype fails on a frame without the columns (no
\* record) and on a time_to_hire that is not a number.
Convertible(records) == records # << >> /\ \A i \in 1..Len(records) : records[i].numeric

\* Floating-point results: a quotient n/d of integers (d > 0), or what the
\* float arithmetic of numpy and pandas gives where no quotient exists.
Num(n, d) == [kind |-> "num", n |-> n, d |-> d]
NaN == [kind |-> "nan", n |-> 0, d |-> 0]
Inf(sign) == [kind |-> "inf", n |-> sign, d |-> 0]

\* x / y on numpy floats: a zero divisor gives nan or an infinity, no error.
FloatDiv(x, y) ==
    IF x.kind # "num" \/ y.kind # "num" THEN NaN
    ELSE IF y.n = 0 THEN (IF x.n = 0 THEN NaN ELSE Inf(IF x.n > 0 THEN 1 ELSE -1))
    ELSE IF y.n > 0 THEN Num(x.n * y.d, x.d * y.n)
    ELSE Num(-(x.n * y.d), x.d * (-y.n))

\* Series.mean() of time_to_hire: nan for no record.
Mean(records) ==
    IF records = << >> THEN NaN ELSE Num(SumDays(records), Len(records))

\* Faulty variant of ProcessMetricsChunk: the length of the boolean mask is
\* taken for the number of filled requisitions.
ProcessMetricsChunkCountsMask(chunk) ==
    [ total_reqs |-> Len(chunk),
      filled_reqs |-> Len(chunk),
      avg_time_to_hire |-> Mean(chunk),
      fill_rate |-> Num(Len(chunk) * 100, Len(chunk)),
      period_start |-> MinOver({ chunk[i].created_at : i \in 1..Len(chunk) }),
      period_end |-> MaxOver({ chunk[i].created_at : i \in 1..Len(chunk) }) ]

\* _process_metrics_chunk, lines 173-199, for a chunk with a record (line 195
\* divides by len(chunk)).
ProcessMetricsChunk(chunk) ==
    LET filled == Len(SelectSeq(chunk, LAMBDA x : x.status = "filled"))
    IN [ total_reqs |-> Len(chunk),
         filled_reqs |-> filled,
         avg_time_to_hire |-> Mean(chunk),
         fill_rate |-> Num(filled * 100, Len(chunk)),
         period_start |-> MinOver({ chunk[i].created_at : i \in 1..Len(chunk) }),
         period_end |-> MaxOver({ chunk[i].created_at : i \in 1..Len(chunk) }) ]

RECURSIVE SumField(_, _)
SumField(chunks, f) ==
    IF chunks = << >> THEN 0 ELSE Head(chunks)[f] + SumField(Tail(chunks), f)

\* _combine_processed_chunks is called at line 96 and defined nowhere in the
\* repository: the merge step of the design, section 4.2 (counts are summed,
\* the fill rate is recomputed from the summed counts and is 0 for no
\* record, the period runs from the least start to the greatest end).
CombineProcessedChunks(chunks) ==
    LET total == SumField(chunks, "total_reqs")
        filled == SumField(chunks, "filled_reqs")
    IN [ total_reqs |-> total,
         filled_reqs |-> filled,
         fill_rate |-> IF total = 0 THEN Num(0, 1) ELSE Num(filled * 100, total),
         period_start |-> MinOver({ chunks[i].period_start : i \in 1..Len(chunks) }),
         period_end |-> MaxOver({ chunks[i].period_end : i \in 1..Len(chunks) }) ]

\* Faulty variant of MetricsChunks: the slice ends one row early.
MetricsChunksShortSlice(records) ==
    [ j \in 1..((Len(records) + METRICS_CHUNK_SIZE - 1) \div METRICS_CHUNK_SIZE) |->
        SubSeq(records, (j - 1) * METRICS_CHUNK_SIZE + 1,
               Min(Len(records), Max(j * METRICS_CHUNK_SIZE - 1,
                                     (j - 1) * METRICS_CHUNK_SIZE + 1))) ]

\* Lines 87-91: metrics_df.iloc[chunk_start:chunk_start + chunk_size] for
\* chunk_start in range(0, len(metrics_df), chunk_size).
MetricsChunks(records) ==
    [ j \in 1..((Len(records) + METRICS_CHUNK_SIZE - 1) \div METRICS_CHUNK_SIZE) |->
        SubSeq(records, (j - 1) * METRICS_CHUNK_SIZE + 1,
               Min(Len(records), j * METRICS_CHUNK_SIZE)) ]

\* Lines 86-110: every chunk is processed, the chunk results are combined
\* and the RecruitmentMetrics is built from the combined result.
ProcessMetrics(records) ==
    LET chunks == MetricsChunks(records)
        processed_chunks == [j \in DOMAIN chunks |-> ProcessMetricsChunk(chunks[j])]
        combined_metrics == CombineProcessedChunks(processed_chunks)
    IN [ total_requisitions |-> combined_metrics.total_reqs,
         filled_requisitions |-> combined_metrics.filled_reqs,
         requisition_fill_rate |-> combined_metrics.fill_rate,
         period_start |-> combined_metrics.period_start,
         period_end |-> combined_metrics.period_end ]

\* Lines 99-110: the RecruitmentMetrics returned by a computation that ends
\* at time t (created_at=datetime.now(), line 101).
RecruitmentMetrics(records, t) ==
    LET m == ProcessMetrics(records)
    IN [ created_at |-> t,
         total_requisitions |-> m.total_requisitions,
         filled_requisitions |-> m.filled_requisitions,
         requisition_fill_rate |-> m.requisition_fill_rate,
         period_start |-> m.period_start,
         period_end |-> m.period_end ]

\* analyze_time_to_hire, lines 138-168: the mean as its numerator and count.
TimeToHire(records) ==
    [ total_days |-> SumDays(records), count |-> Len(records) ]

\* analyze_skills_data is called at etl_service.py:302 and defined nowhere
\* in the repository: the skill tabulation of the design, section 4.3.
SkillsData(cands) == UNION { cands[i].skills : i \in 1..Len(cands) }

\* pd.Grouper(key='created_at', freq='W'), line 212: the weekly bins end
\* on a Sunday, are closed on the right and carry the date of that Sunday.
WeekLabel(d) == ((d + 6) \div 7) * 7

\* dt.month, line 241, in a calendar of twelve months of thirty days.
Month(d) == ((d \div 30) % 12) + 1

RECURSIVE SortedSeq(_)
SortedSeq(S) ==
    IF S = {} THEN << >> ELSE << MinOver(S) >> \o SortedSeq(S \ {MinOver(S)})

RECURSIVE SumSquares(_)
SumSquares(records) ==
    IF records = << >> THEN 0
    ELSE Head(records).time_to_hire * Head(records).time_to_hire
         + SumSquares(Tail(records))

\* Lines 217-218: 1.96 * std / sqrt(n) with the sample standard deviation
\* of pandas, which is nan for one record.  A number stands for the square
\* of std / sqrt(n); the confidence is 1.96 times its non-negative root.
Confidence(group) ==
    LET n == Len(group)
    IN IF n < 2 THEN NaN
       ELSE Num(n * SumSquares(group) - SumDays(group) * SumDays(group),
                n * n * (n - 1))

\* Faulty variant of CalculateTrends: the test for an empty group is
\* missing, and every weekly bin gives a point.
CalculateTrendsEveryBin(df) ==
    IF df = << >> THEN << >>
    ELSE LET labels == { WeekLabel(df[i].created_at) : i \in 1..Len(df) }
             bins == SortedSeq({ b \in MinOver(labels)..MaxOver(labels) : b % 7 = 0 })
             group(b) == SelectSeq(df, LAMBDA x : WeekLabel(x.created_at) = b)
         IN [ k \in 1..Len(bins) |->
                [ date |-> bins[k],
                  value |-> Mean(group(bins[k])),
                  confidence |-> Confidence(group(bins[k])) ] ]

\* _calculate_trends, lines 201-226: the grouper yields every weekly bin
\* from the first record's to the last record's in date order; a point is
\* appended for each bin that holds a record.
CalculateTrends(df) ==
    IF df = << >> THEN << >>
    ELSE LET labels == { WeekLabel(df[i].created_at) : i \in 1..Len(df) }
             group(b) == SelectSeq(df, LAMBDA x : WeekLabel(x.created_at) = b)
             bins == SortedSeq({ b \in MinOver(labels)..MaxOver(labels) :
                                   b % 7 = 0 /\ group(b) # << >> })
         IN [ k \in 1..Len(bins) |->
                [ date |-> bins[k],
                  value |-> Mean(group(bins[k])),
                  confidence |-> Confidence(group(bins[k])) ] ]

\* _analyze_seasonality, lines 228-248: for every month of the data, the
\* month's mean divided by the global mean (the key "month_<m>" is m).
AnalyzeSeasonality(df) ==
    LET months == { Month(df[i].created_at) : i \in 1..Len(df) }
        global_mean == Mean(df)
    IN [ m \in months |->
           FloatDiv(Mean(SelectSeq(df, LAMBDA x : Month(x.created_at) = m)),
                    global_mean) ]

\* analyze_time_to_hire, lines 146-168, on a frame that astype accepted.
TimeToHireAnalytics(records, r) ==
    LET df == SelectSeq(records, LAMBDA x : InRange(x.created_at, r))
    IN [ average_days |-> Mean(df),
         trend_data |-> CalculateTrends(df),
         seasonal_patterns |-> AnalyzeSeasonality(df) ]

(***************************************************************************)
(* transform_metrics_data, etl_service.py:128-175.                         *)
(***************************************************************************)
\* Faulty variant of ArraySplit: every chunk holds Len(s) \div k rows and the
\* remainder is left out.
ArraySplitDropsRemainder(s, k, i) ==
    LET q == Len(s) \div k
    IN SubSeq(s, (i - 1) * q + 1, i * q)

\* Faulty variant of ArraySplit: every chunk but the last holds Len(s) \div k
\* rows and the last chunk takes the remainder.
ArraySplitRemainderLast(s, k, i) ==
    LET n == Len(s)
        q == n \div k
    IN SubSeq(s, (i - 1) * q + 1, IF i = k THEN n ELSE i * q)

\* np.array_split(df, k)[i-1]: the first Len(s) % k chunks hold one row more.
ArraySplit(s, k, i) ==
    LET n == Len(s)
        q == n \div k
        r == n % k
        lo == (i - 1) * q + Min(i - 1, r)
        sz == IF i <= r THEN q + 1 ELSE q
    IN SubSeq(s, lo + 1, lo + sz)

ReqChunk(p, i) == ArraySplit(raw_data[p][1].requisitions, Workers, i)
CandChunk(p, i) == ArraySplit(raw_data[p][1].candidates, Workers, i)

NoResult == [metrics |-> << >>, skills |-> {}, time_to_hire |-> << >>]
PendingTask == [state |-> "pending", result |-> NoResult, error |-> "none"]

\* Faulty variant of TransformSplit: no task is created for an empty chunk,
\* which counts as done with nothing to merge.
TransformSplitSkipsEmptyChunks(p) ==
    /\ pc[p] = "Transforming" /\ step[p] = "split"
    /\ tasks' = [tasks EXCEPT ![p] =
          [i \in 1..Workers |->
              IF ReqChunk(p, i) = << >>
              THEN [state |-> "done", result |-> NoResult, error |-> "none"]
              ELSE PendingTask]]
    /\ step' = [step EXCEPT ![p] = "gather"]
    /\ UNCHANGED << envVars, etlCache, mpVars, sinkVars, pc, range, reads,
                    extractLocals, raw_data, processed_data, loadLocals, attempts,
                    delays, outcome >>
    /\ UNCHANGED callVars

\* Lines 145-163: the frames are split and one task per chunk is created.
TransformSplit(p) ==
    /\ pc[p] = "Transforming" /\ step[p] = "split"
    /\ tasks' = [tasks EXCEPT ![p] = [i \in 1..Workers |-> PendingTask]]
    /\ step' = [step EXCEPT ![p] = "gather"]
    /\ UNCHANGED << envVars, etlCache, mpVars, sinkVars, pc, range, reads,
                    extractLocals, raw_data, processed_data, loadLocals, attempts,
                    delays, outcome >>
    /\ UNCHANGED callVars

\* Faulty variant of RunTask: the records are counted as processed before
\* they are converted, so that a failed call counts them too.
RunTaskCountsFailedRecords(p, i) ==
    /\ tasks[p] # << >> /\ tasks[p][i].state = "pending"
    /\ LET records == ReqChunk(p, i)
           key == MetricsKey(records, "weekly")
           hit == IsCacheValid(mpStamps, key, now)
           metrics == IF hit THEN mpCache[key] ELSE RecruitmentMetrics(records, now)
       IN IF hit
          THEN /\ processing_stats' = [processing_stats EXCEPT !.cache_hits = @ + 1]
               /\ UNCHANGED << mpCache, mpStamps >>
               /\ tasks' = [tasks EXCEPT ![p][i] =
                     [state |-> "done", error |-> "none",
                      result |-> [metrics |-> << metrics >>,
                                  skills |-> SkillsData(CandChunk(p, i)),
                                  time_to_hire |-> << TimeToHire(records) >>]]]
          ELSE IF Convertible(records)
          THEN /\ processing_stats' =
                     [processing_stats EXCEPT !.cache_misses = @ + 1,
                                              !.total_processed = @ + Len(records)]
               /\ mpCache' = UpdateCache(mpCache, mpStamps, key, metrics, now).cache
               /\ mpStamps' = UpdateCache(mpCache, mpStamps, key, metrics, now).stamps
               /\ tasks' = [tasks EXCEPT ![p][i] =
                     [state |-> "done", error |-> "none",
                      result |-> [metrics |-> << metrics >>,
                                  skills |-> SkillsData(CandChunk(p, i)),
                                  time_to_hire |-> << TimeToHire(records) >>]]]
          ELSE /\ processing_stats' =
                     [processing_stats EXCEPT !.cache_misses = @ + 1,
                                              !.total_processed = @ + Len(records)]
               /\ UNCHANGED << mpCache, mpStamps >>
               /\ tasks' = [tasks EXCEPT ![p][i] =
                     [state |-> "failed", result |-> NoResult,
                      error |-> "process_recruitment_metrics"]]
    /\ UNCHANGED << envVars, etlCache, sinkVars, pc, step, range, reads,
                    extractLocals, raw_data, processed_data, loadLocals, attempts,
                    delays, outcome >>
    /\ UNCHANGED callVars

\* _process_metrics_chunk, etl_service.py:278-319, with
\* process_recruitment_metrics, data_processing.py:69-119.
RunTask(p, i) ==
    /\ tasks[p] # << >> /\ tasks[p][i].state = "pending"
    /\ LET records == ReqChunk(p, i)
           key == MetricsKey(records, "weekly")
           hit == IsCacheValid(mpStamps, key, now)
           metrics == IF hit THEN mpCache[key] ELSE RecruitmentMetrics(records, now)
       IN IF hit
          THEN /\ processing_stats' = [processing_stats EXCEPT !.cache_hits = @ + 1]
               /\ UNCHANGED << mpCache, mpStamps >>
               /\ tasks' = [tasks EXCEPT ![p][i] =
                     [state |-> "done", error |-> "none",
                      result |-> [metrics |-> << metrics >>,
                                  skills |-> SkillsData(CandChunk(p, i)),
                                  time_to_hire |-> << TimeToHire(records) >>]]]
          ELSE IF Convertible(records)
          THEN /\ processing_stats' =
                     [processing_stats EXCEPT !.cache_misses = @ + 1,
                                              !.total_processed = @ + Len(records)]
               /\ mpCache' = UpdateCache(mpCache, mpStamps, key, metrics, now).cache
               /\ mpStamps' = UpdateCache(mpCache, mpStamps, key, metrics, now).stamps
               /\ tasks' = [tasks EXCEPT ![p][i] =
                     [state |-> "done", error |-> "none",
                      result |-> [metrics |-> << metrics >>,
                                  skills |-> SkillsData(CandChunk(p, i)),
                                  time_to_hire |-> << TimeToHire(records) >>]]]
          ELSE /\ processing_stats' = [processing_stats EXCEPT !.cache_misses = @ + 1]
               /\ UNCHANGED << mpCache, mpStamps >>
               /\ tasks' = [tasks EXCEPT ![p][i] =
                     [state |-> "failed", result |-> NoResult,
                      error |-> "process_recruitment_metrics"]]
    /\ UNCHANGED << envVars, etlCache, sinkVars, pc, step, range, reads,
                    extractLocals, raw_data, processed_data, loadLocals, attempts,
                    delays, outcome >>
    /\ UNCHANGED callVars

\* Lines 165-170: the chunk results are concatenated in task order.
Combine(ts) ==
    [ recruitment_metrics |-> [i \in 1..Len(ts) |-> ts[i].result.metrics[1]],
      skill_analytics |-> [i \in 1..Len(ts) |-> ts[i].result.skills],
      time_to_hire |-> [i \in 1..Len(ts) |-> ts[i].result.time_to_hire[1]] ]

\* The chunk tasks whose exception asyncio.gather hands to the awaiting
\* transform (line 163).
Raised(ts) == { i \in 1..Len(ts) : ts[i].state = "failed" }

\* Faulty variant of GatherDone: gather collects the exceptions instead of
\* raising them, and the chunks that completed are merged.
GatherDoneMergesPartial(p) ==
    /\ pc[p] = "Transforming" /\ step[p] = "gather"
    /\ \A i \in 1..Workers : tasks[p][i].state # "pending"
    /\ \E i \in 1..Workers : tasks[p][i].state = "done"
    /\ processed_data' = [processed_data EXCEPT ![p] =
           Some(Combine(SelectSeq(tasks[p], LAMBDA t : t.state = "done")))]
    /\ pc' = [pc EXCEPT ![p] = "Loading"]
    /\ step' = [step EXCEPT ![p] = "connect"]
    /\ attempts' = [attempts EXCEPT ![p].load = @ + 1]
    /\ UNCHANGED << envVars, etlCache, mpVars, sinkVars, range, reads, extractLocals,
                    raw_data, tasks, loadLocals, delays, outcome >>
    /\ UNCHANGED callVars

\* Line 163 onwards, every task done: the merged data goes to the load.
GatherDone(p) ==
    /\ pc[p] = "Transforming" /\ step[p] = "gather"
    /\ \A i \in 1..Workers : tasks[p][i].state = "done"
    /\ processed_data' = [processed_data EXCEPT ![p] = Some(Combine(tasks[p]))]
    /\ pc' = [pc EXCEPT ![p] = "Loading"]
    /\ step' = [step EXCEPT ![p] = "connect"]
    /\ attempts' = [attempts EXCEPT ![p].load = @ + 1]
    /\ UNCHANGED << envVars, etlCache, mpVars, sinkVars, range, reads, extractLocals,
                    raw_data, tasks, loadLocals, delays, outcome >>
    /\ UNCHANGED callVars

\* Faulty variant of GatherRaise: the transform is started again after a
\* backoff delay.
GatherRaiseRetries(p) ==
    /\ pc[p] = "Transforming" /\ step[p] = "gather"
    /\ Raised(tasks[p]) # {}
    /\ step' = [step EXCEPT ![p] = "split"]
    /\ attempts' = [attempts EXCEPT ![p].transform = @ + 1]
    /\ delays' = [delays EXCEPT ![p] = Append(@, 2 ^ attempts[p].transform)]
    /\ UNCHANGED << envVars, etlCache, mpVars, sinkVars, pc, range, reads,
                    extractLocals, raw_data, tasks, processed_data, loadLocals,
                    outcome >>
    /\ UNCHANGED callVars

\* Faulty variant of GatherRaise: the tasks still pending are cancelled when
\* the transform fails.
GatherRaiseCancelsSiblings(p) ==
    /\ pc[p] = "Transforming" /\ step[p] = "gather"
    /\ \E i \in Raised(tasks[p]) : Fail(p, TransformError(tasks[p][i].error))
    /\ tasks' = [tasks EXCEPT ![p] =
          [i \in 1..Workers |->
              IF tasks[p][i].state = "pending"
              THEN [state |-> "cancelled", result |-> NoResult,
                    error |-> "CancelledError"]
              ELSE tasks[p][i]]]
    /\ UNCHANGED << envVars, etlCache, mpVars, sinkVars, range, reads, extractLocals,
                    raw_data, processed_data, loadLocals, attempts, delays >>
    /\ UNCHANGED callVars

\* Lines 163, 174-175: a task's exception ends the transform; the other
\* tasks are left running.
GatherRaise(p) ==
    /\ pc[p] = "Transforming" /\ step[p] = "gather"
    /\ \E i \in Raised(tasks[p]) : Fail(p, TransformError(tasks[p][i].error))
    /\ UNCHANGED << envVars, etlCache, mpVars, sinkVars, range, reads, extractLocals,
                    raw_data, tasks, processed_data, loadLocals, attempts, delays >>
    /\ UNCHANGED callVars

(***************************************************************************)
(* load_analytics_data, etl_service.py:177-229.                            *)
(***************************************************************************)
\* Lines 199-206 and 218-224: one row, one document per metrics record.
MetricRows(p) ==
    LET recs == processed_data[p][1].recruitment_metrics
    IN { [by |-> p, n |-> i, rec |-> recs[i]] : i \in 1..Len(recs) }
\* Lines 209-215: one row per skill record.
SkillRows(p) ==
    LET recs == processed_data[p][1].skill_analytics
    IN { [by |-> p, n |-> i, rec |-> recs[i]] : i \in 1..Len(recs) }

\* Lines 228-229 seen from the run; an open transaction is rolled back by
\* the exception leaving its block (line 197).
LoadRaise(p, cause) ==
    /\ Fail(p, LoadError(cause))
    /\ txn' = [txn EXCEPT ![p] = None]

\* Lines 192-193: get_pg_pool, get_client.
LoadConnect(p) ==
    /\ pc[p] = "Loading" /\ step[p] = "connect"
    /\ \/ /\ step' = [step EXCEPT ![p] = "begin"]
          /\ UNCHANGED << pc, outcome, txn >>
       \/ LoadRaise(p, "connect")
    /\ UNCHANGED << envVars, etlCache, mpVars, sinkVars, range, reads, extractLocals,
                    raw_data, tasks, processed_data, bulkSent, attempts, delays >>
    /\ UNCHANGED callVars

\* Lines 196-197: a connection is acquired and a transaction opened.
LoadBegin(p) ==
    /\ pc[p] = "Loading" /\ step[p] = "begin"
    /\ \/ /\ txn' = [txn EXCEPT ![p] = Some([metrics |-> {}, skills |-> {}])]
          /\ step' = [step EXCEPT ![p] = "insert_metrics"]
          /\ UNCHANGED << pc, outcome >>
       \/ LoadRaise(p, "begin")
    /\ UNCHANGED << envVars, etlCache, mpVars, sinkVars, range, reads, extractLocals,
                    raw_data, tasks, processed_data, bulkSent, attempts, delays >>
    /\ UNCHANGED callVars

\* Lines 199-206: executemany INSERT INTO analytics.recruitment_metrics.
LoadInsertMetrics(p) ==
    /\ pc[p] = "Loading" /\ step[p] = "insert_metrics"
    /\ \/ /\ txn' = [txn EXCEPT ![p] = Some([txn[p][1] EXCEPT !.metrics = MetricRows(p)])]
          /\ step' = [step EXCEPT ![p] = "insert_skills"]
          /\ UNCHANGED << pc, outcome >>
       \/ LoadRaise(p, "insert_metrics")
    /\ UNCHANGED << envVars, etlCache, mpVars, sinkVars, range, reads, extractLocals,
                    raw_data, tasks, processed_data, bulkSent, attempts, delays >>
    /\ UNCHANGED callVars

\* Faulty variant of LoadInsertSkills: the inserts run outside a transaction,
\* so the rows of the first insert stay when the second one fails.
LoadInsertSkillsAutocommit(p) ==
    /\ pc[p] = "Loading" /\ step[p] = "insert_skills"
    /\ \/ /\ txn' = [txn EXCEPT ![p] = Some([txn[p][1] EXCEPT !.skills = SkillRows(p)])]
          /\ step' = [step EXCEPT ![p] = "commit"]
          /\ UNCHANGED << pc, outcome, sinkVars >>
       \/ /\ LoadRaise(p, "insert_skills")
          /\ pgMetrics' = pgMetrics \cup txn[p][1].metrics
          /\ UNCHANGED << pgSkills, esDocs >>
    /\ UNCHANGED << envVars, etlCache, mpVars, range, reads, extractLocals,
                    raw_data, tasks, processed_data, bulkSent, attempts, delays >>
    /\ UNCHANGED callVars

\* Lines 209-215: executemany INSERT INTO analytics.skill_metrics.
LoadInsertSkills(p) ==
    /\ pc[p] = "Loading" /\ step[p] = "insert_skills"
    /\ \/ /\ txn' = [txn EXCEPT ![p] = Some([txn[p][1] EXCEPT !.skills = SkillRows(p)])]
          /\ step' = [step EXCEPT ![p] = "commit"]
          /\ UNCHANGED << pc, outcome >>
       \/ LoadRaise(p, "insert_skills")
    /\ UNCHANGED << envVars, etlCache, mpVars, sinkVars, range, reads, extractLocals,
                    raw_data, tasks, processed_data, bulkSent, attempts, delays >>
    /\ UNCHANGED callVars

\* Faulty variant of LoadCommit: the search sink is written from inside the
\* transaction block, before the transaction is committed.
LoadCommitAfterBulk(p) ==
    /\ pc[p] = "Loading" /\ step[p] = "commit"
    /\ step' = [step EXCEPT ![p] = "bulk"]
    /\ UNCHANGED << envVars, etlCache, mpVars, sinkVars, pc, outcome, range, reads,
                    extractLocals, raw_data, tasks, processed_data, loadLocals,
                    attempts, delays >>
    /\ UNCHANGED callVars

\* Line 197, leaving the transaction block: COMMIT.
LoadCommit(p) ==
    /\ pc[p] = "Loading" /\ step[p] = "commit"
    /\ \/ /\ pgMetrics' = pgMetrics \cup txn[p][1].metrics
          /\ pgSkills' = pgSkills \cup txn[p][1].skills
          /\ txn' = [txn EXCEPT ![p] = None]
          /\ step' = [step EXCEPT ![p] = "bulk"]
          /\ UNCHANGED << pc, outcome >>
       \/ /\ LoadRaise(p, "commit")
          /\ UNCHANGED << pgMetrics, pgSkills >>
    /\ UNCHANGED << envVars, etlCache, mpVars, esDocs, range, reads, extractLocals,
                    raw_data, tasks, processed_data, bulkSent, attempts, delays >>
    /\ UNCHANGED callVars

\* Faulty variant of LoadBulk: a failed bulk request is compensated by
\* deleting the rows the run committed to the relational sink.
LoadBulkCompensates(p) ==
    /\ pc[p] = "Loading" /\ step[p] = "bulk"
    /\ bulkSent' = [bulkSent EXCEPT ![p] = @ + 1]
    /\ \/ /\ esDocs' = esDocs \cup MetricRows(p)
          /\ pc' = [pc EXCEPT ![p] = "Succeeded"]
          /\ step' = [step EXCEPT ![p] = "none"]
          /\ outcome' = [outcome EXCEPT ![p] = RunReturn(TRUE)]
          /\ UNCHANGED << pgMetrics, pgSkills >>
       \/ /\ \E applied \in BOOLEAN :
                esDocs' = IF applied THEN esDocs \cup MetricRows(p) ELSE esDocs
          /\ Fail(p, LoadError("bulk"))
          /\ pgMetrics' = pgMetrics \ MetricRows(p)
          /\ pgSkills' = pgSkills \ SkillRows(p)
    /\ UNCHANGED << envVars, etlCache, mpVars, range, reads,
                    extractLocals, raw_data, tasks, processed_data, txn, attempts,
                    delays >>
    /\ UNCHANGED callVars

\* Faulty variant of LoadBulk: a failure of the bulk request is swallowed
\* and the load reports success.
LoadBulkSwallowsError(p) ==
    /\ pc[p] = "Loading" /\ step[p] = "bulk"
    /\ bulkSent' = [bulkSent EXCEPT ![p] = @ + 1]
    /\ \E applied \in BOOLEAN :
          esDocs' = IF applied THEN esDocs \cup MetricRows(p) ELSE esDocs
    /\ pc' = [pc EXCEPT ![p] = "Succeeded"]
    /\ step' = [step EXCEPT ![p] = "none"]
    /\ outcome' = [outcome EXCEPT ![p] = RunReturn(TRUE)]
    /\ UNCHANGED << envVars, etlCache, mpVars, pgMetrics, pgSkills, range, reads,
                    extractLocals, raw_data, tasks, processed_data, txn, attempts,
                    delays >>
    /\ UNCHANGED callVars

\* Lines 218-226 and 263-271: the bulk request; on its success load returns
\* True and the run returns it.  A request that fails may have been applied.
LoadBulk(p) ==
    /\ pc[p] = "Loading" /\ step[p] = "bulk"
    /\ bulkSent' = [bulkSent EXCEPT ![p] = @ + 1]
    /\ \/ /\ esDocs' = esDocs \cup MetricRows(p)
          /\ pc' = [pc EXCEPT ![p] = "Succeeded"]
          /\ step' = [step EXCEPT ![p] = "none"]
          /\ outcome' = [outcome EXCEPT ![p] = RunReturn(TRUE)]
       \/ /\ \E applied \in BOOLEAN :
                esDocs' = IF applied THEN esDocs \cup MetricRows(p) ELSE esDocs
          /\ Fail(p, LoadError("bulk"))
    /\ UNCHANGED << envVars, etlCache, mpVars, pgMetrics, pgSkills, range, reads,
                    extractLocals, raw_data, tasks, processed_data, txn, attempts,
                    delays >>
    /\ UNCHANGED callVars

(***************************************************************************)
(* Direct calls of the MetricsProcessor, data_processing.py.               *)
(***************************************************************************)
\* Faulty variant of ValidateRange: a range of one day is rejected as well.
ValidateRangeStrict(start_date, end_date) == start_date < end_date

\* DateRange.validate_range, analytics_types.py:52-57: the validator raises
\* when end_date < start_date and returns end_date otherwise.
ValidateRange(start_date, end_date) == ~(end_date < start_date)

\* pydantic turns the validator's ValueError into a ValidationError.
RaisedValidationError ==
    [ok |-> FALSE, error |-> "ValidationError", metrics |-> << >>, analytics |-> << >>]

\* DateRange(start_date=..., end_date=...), analytics_types.py:43-57.
ConstructDateRange ==
    /\ mp_method = "none"
    /\ mp_method' = "DateRange"
    /\ IF ValidateRange(range_args.start_date, range_args.end_date)
       THEN /\ date_range' = [start_date |-> range_args.start_date,
                              end_date |-> range_args.end_date]
            /\ mp_result' = [ok |-> TRUE, error |-> "none", metrics |-> << >>,
                             analytics |-> << >>]
       ELSE /\ date_range' = date_range
            /\ mp_result' = RaisedValidationError
    /\ UNCHANGED << now, etlVars, mpVars, raw_metrics, mp_pc, range_args, svcVars >>

Returned(metrics, analytics) ==
    [ok |-> TRUE, error |-> "none", metrics |-> metrics, analytics |-> analytics]
\* Lines 118-119 and 170-171: raise ValueError(...).
RaisedValueError ==
    [ok |-> FALSE, error |-> "ValueError", metrics |-> << >>, analytics |-> << >>]

\* Faulty variant of ProcessRecruitmentMetricsLookup: line 75 is reached on a
\* hit as well, and a hit is counted as a hit and as a miss.
LookupCountsHitAsMissToo ==
    /\ mp_pc = "idle"
    /\ processing_stats.cache_hits + processing_stats.cache_misses < MaxCalls
    /\ LET key == MetricsKey(raw_metrics, "weekly")
       IN IF IsCacheValid(mpStamps, key, now)
          THEN /\ processing_stats' = [processing_stats EXCEPT !.cache_hits = @ + 1,
                                                               !.cache_misses = @ + 1]
               /\ mp_result' = Returned(<< mpCache[key] >>, << >>)
               /\ mp_pc' = "idle"
          ELSE /\ processing_stats' = [processing_stats EXCEPT !.cache_misses = @ + 1]
               /\ mp_result' = NoCall
               /\ mp_pc' = "computing"
    /\ mp_method' = "process_recruitment_metrics"
    /\ UNCHANGED << now, etlVars, mpCache, mpStamps, raw_metrics, date_range,
                    range_args, svcVars >>

\* A direct call process_recruitment_metrics(raw_metrics, 'weekly') is taken
\* in two steps, so that the state its lookup leaves is a state of the
\* model; the clock may move between the two, no other call runs.
\* Lines 69-75: the lookup.  A valid entry is returned at once.
ProcessRecruitmentMetricsLookup ==
    /\ mp_pc = "idle"
    /\ processing_stats.cache_hits + processing_stats.cache_misses < MaxCalls
    /\ LET key == MetricsKey(raw_metrics, "weekly")
       IN IF IsCacheValid(mpStamps, key, now)
          THEN /\ processing_stats' = [processing_stats EXCEPT !.cache_hits = @ + 1]
               /\ mp_result' = Returned(<< mpCache[key] >>, << >>)
               /\ mp_pc' = "idle"
          ELSE /\ processing_stats' = [processing_stats EXCEPT !.cache_misses = @ + 1]
               /\ mp_result' = NoCall
               /\ mp_pc' = "computing"
    /\ mp_method' = "process_recruitment_metrics"
    /\ UNCHANGED << now, etlVars, mpCache, mpStamps, raw_metrics, date_range,
                    range_args, svcVars >>

\* Lines 77-119: the computation after a miss; its result is cached.
ProcessRecruitmentMetricsCompute ==
    /\ mp_pc = "computing"
    /\ LET key == MetricsKey(raw_metrics, "weekly")
           result == RecruitmentMetrics(raw_metrics, now)
       IN IF Convertible(raw_metrics)
          THEN /\ mpCache' = UpdateCache(mpCache, mpStamps, key, result, now).cache
               /\ mpStamps' = UpdateCache(mpCache, mpStamps, key, result, now).stamps
               /\ processing_stats' =
                     [processing_stats EXCEPT !.total_processed = @ + Len(raw_metrics)]
               /\ mp_result' = Returned(<< result >>, << >>)
          ELSE /\ mp_result' = RaisedValueError
               /\ UNCHANGED mpVars
    /\ mp_pc' = "idle"
    /\ UNCHANGED << now, etlVars, raw_metrics, date_range, mp_method, range_args, svcVars >>

\* analyze_time_to_hire(raw_metrics, date_range), lines 121-171.
AnalyzeTimeToHire ==
    /\ mp_pc = "idle"
    /\ mp_method' = "analyze_time_to_hire"
    /\ mp_result' = IF Convertible(raw_metrics)
                    THEN Returned(<< >>, << TimeToHireAnalytics(raw_metrics, date_range) >>)
                    ELSE RaisedValueError
    /\ UNCHANGED << now, etlVars, mpVars, raw_metrics, date_range, mp_pc,
                    range_args, svcVars >>

(***************************************************************************)
(* AnalyticsService.initialize, analytics_service.py:70-87.                *)
(***************************************************************************)
\* Lines 84-87: any exception of a step becomes this RuntimeError.
InitializeFailed == SvcRaised("RuntimeError: Analytics service initialization failed", 0)

\* One awaited call of initialize: it returns, or it raises and initialize
\* ends in its except clause.
DependencyCall(from, name, to) ==
    /\ svc_pc = from
    /\ init_log' = Append(init_log, name)
    /\ \E ok \in BOOLEAN :
         IF ok
         THEN svc_pc' = to /\ svc_result' = svc_result
         ELSE svc_pc' = "failed" /\ svc_result' = InitializeFailed
    /\ UNCHANGED << db_health, es_health, max_retries, svc_cache, svc_args, retries,
                    model_calls, sleeps, model_returned, requests >>
    /\ UNCHANGED << now, etlVars, mpVars, directVars >>

\* Line 73.
DbManagerInitialize ==
    DependencyCall("new", "db_manager.initialize", "db_initialized")
\* Line 74.
EsManagerInitialize ==
    DependencyCall("db_initialized", "es_manager.initialize", "es_initialized")
\* Line 75.
AnalyticsModelInitialize ==
    DependencyCall("es_initialized", "analytics_model.initialize", "model_initialized")

\* Line 281: db_health = await self._db_manager.check_health().
CheckDbHealth ==
    /\ svc_pc = "model_initialized"
    /\ init_log' = Append(init_log, "db_manager.check_health")
    /\ \/ /\ \E h \in [postgres : DbStatuses, mongodb : DbStatuses] : db_health' = h
          /\ svc_pc' = "db_checked"
          /\ svc_result' = svc_result
       \/ /\ db_health' = db_health
          /\ svc_pc' = "failed"
          /\ svc_result' = InitializeFailed
    /\ UNCHANGED << es_health, max_retries, svc_cache, svc_args, retries,
                    model_calls, sleeps, model_returned, requests >>
    /\ UNCHANGED << now, etlVars, mpVars, directVars >>

\* Faulty variant of CheckEsHealth: a yellow cluster passes the check.
CheckEsHealthAcceptsYellow ==
    /\ svc_pc = "db_checked"
    /\ init_log' = Append(init_log, "es_manager.check_health")
    /\ \/ /\ \E status \in EsStatuses :
               /\ es_health' = status
               /\ IF /\ db_health.postgres = "healthy"
                     /\ db_health.mongodb = "healthy"
                     /\ status \in { "green", "yellow" }
                  THEN svc_pc' = "ready" /\ svc_result' = svc_result
                  ELSE svc_pc' = "failed" /\ svc_result' = InitializeFailed
       \/ /\ es_health' = es_health
          /\ svc_pc' = "failed"
          /\ svc_result' = InitializeFailed
    /\ UNCHANGED << db_health, max_retries, svc_cache, svc_args, retries,
                    model_calls, sleeps, model_returned, requests >>
    /\ UNCHANGED << now, etlVars, mpVars, directVars >>

\* Lines 282-293 and 76-82: es_health = await self._es_manager.check_health(),
\* then the test of the three statuses; initialize returns when it passes.
CheckEsHealth ==
    /\ svc_pc = "db_checked"
    /\ init_log' = Append(init_log, "es_manager.check_health")
    /\ \/ /\ \E status \in EsStatuses :
               /\ es_health' = status
               /\ IF /\ db_health.postgres = "healthy"
                     /\ db_health.mongodb = "healthy"
                     /\ status = "green"
                  THEN svc_pc' = "ready" /\ svc_result' = svc_result
                  ELSE svc_pc' = "failed" /\ svc_result' = InitializeFailed
       \/ /\ es_health' = es_health
          /\ svc_pc' = "failed"
          /\ svc_result' = InitializeFailed
    /\ UNCHANGED << db_health, max_retries, svc_cache, svc_args, retries,
                    model_calls, sleeps, model_returned, requests >>
    /\ UNCHANGED << now, etlVars, mpVars, directVars >>

(***************************************************************************)
(* AnalyticsService.get_recruitment_metrics, analytics_service.py:89-127,  *)
(* and _get_metrics_with_retry, 252-275.  A request runs without           *)
(* suspending up to its first call of the model; the clock may move while  *)
(* it awaits the model or sleeps.                                          *)
(***************************************************************************)
\* Faulty variant of GetRecruitmentMetrics: line 115 is left out and the
\* range goes to the model unvalidated.
GetRecruitmentMetricsSkipsValidation ==
    /\ svc_pc = "ready"
    /\ requests < MaxRequests
    /\ requests' = requests + 1
    /\ retries' = 0
    /\ sleeps' = << >>
    /\ \E a \in SvcArgs :
         LET cache_key == SvcCacheKey(a.start_date, a.end_date, a.metric_types)
         IN /\ svc_args' = a
            /\ IF CacheContains(svc_cache, cache_key, now)
               THEN /\ svc_result' = SvcReturned(CacheGet(svc_cache, cache_key))
                    /\ model_calls' = 0
                    /\ svc_pc' = "ready"
                    /\ svc_cache' = svc_cache
               ELSE IF retries' < max_retries
               THEN /\ svc_result' = NoSvcResult
                    /\ model_calls' = 1
                    /\ svc_pc' = "calling"
                    /\ svc_cache' = svc_cache
               ELSE /\ svc_result' = SvcReturned(NoneValue)
                    /\ model_calls' = 0
                    /\ svc_pc' = "ready"
                    /\ svc_cache' = SvcCacheSet(svc_cache, cache_key, NoneValue, now)
    /\ UNCHANGED << init_log, db_health, es_health, max_retries, model_returned >>
    /\ UNCHANGED << now, etlVars, mpVars, directVars >>

\* Lines 106-118 and 266-270, up to the first await: the cache lookup, the
\* DateRange, retries = 0 and the first test of the while condition.  When
\* the condition is false at once the loop body never runs,
\* _get_metrics_with_retry ends without a return and its None is cached and
\* returned (lines 121-123).
GetRecruitmentMetrics ==
    /\ svc_pc = "ready"
    /\ requests < MaxRequests
    /\ requests' = requests + 1
    /\ retries' = 0
    /\ sleeps' = << >>
    /\ \E a \in SvcArgs :
         LET cache_key == SvcCacheKey(a.start_date, a.end_date, a.metric_types)
         IN /\ svc_args' = a
            /\ IF CacheContains(svc_cache, cache_key, now)
               THEN /\ svc_result' = SvcReturned(CacheGet(svc_cache, cache_key))
                    /\ model_calls' = 0
                    /\ svc_pc' = "ready"
                    /\ svc_cache' = svc_cache
               ELSE IF ~ValidateRange(a.start_date, a.end_date)
               THEN /\ svc_result' = SvcRaised("ValidationError", 0)
                    /\ model_calls' = 0
                    /\ svc_pc' = "ready"
                    /\ svc_cache' = svc_cache
               ELSE IF retries' < max_retries
               THEN /\ svc_result' = NoSvcResult
                    /\ model_calls' = 1
                    /\ svc_pc' = "calling"
                    /\ svc_cache' = svc_cache
               ELSE /\ svc_result' = SvcReturned(NoneValue)
                    /\ model_calls' = 0
                    /\ svc_pc' = "ready"
                    /\ svc_cache' = SvcCacheSet(svc_cache, cache_key, NoneValue, now)
    /\ UNCHANGED << init_log, db_health, es_health, max_retries, model_returned >>
    /\ UNCHANGED << now, etlVars, mpVars, directVars >>

\* Lines 270 and 121-123: the model returns; the value is cached and returned.
GetMetricsReturns ==
    /\ svc_pc = "calling"
    /\ LET a == svc_args
           cache_key == SvcCacheKey(a.start_date, a.end_date, a.metric_types)
           metrics == GetMetrics(a.start_date, a.end_date, a.metric_types, now)
       IN /\ model_returned' = model_returned \cup { metrics }
          /\ svc_cache' = SvcCacheSet(svc_cache, cache_key, metrics, now)
          /\ svc_result' = SvcReturned(metrics)
    /\ svc_pc' = "ready"
    /\ UNCHANGED << init_log, db_health, es_health, max_retries, svc_args, retries,
                    model_calls, sleeps, requests >>
    /\ UNCHANGED << now, etlVars, mpVars, directVars >>

\* Faulty variant of Backoff: the first delay is 1 second.
BackoffFromOne(n) == 2 ^ (n - 1)
\* Line 275: asyncio.sleep(2 ** retries).
Backoff(n) == 2 ^ n

\* Lines 271-275 and 125-127: the model raises.  The last attempt's
\* exception is re-raised to the caller; otherwise the request sleeps.
GetMetricsRaises ==
    /\ svc_pc = "calling"
    /\ retries' = retries + 1
    /\ IF retries' = max_retries
       THEN /\ svc_result' = SvcRaised("ModelError", model_calls)
            /\ svc_pc' = "ready"
            /\ sleeps' = sleeps
       ELSE /\ svc_result' = svc_result
            /\ svc_pc' = "sleeping"
            /\ sleeps' = Append(sleeps, Backoff(retries'))
    /\ UNCHANGED << init_log, db_health, es_health, max_retries, svc_cache, svc_args,
                    model_calls, model_returned, requests >>
    /\ UNCHANGED << now, etlVars, mpVars, directVars >>

\* Lines 266-270 after a sleep: the while condition, then the next attempt.
RetryAfterSleep ==
    /\ svc_pc = "sleeping"
    /\ IF retries < max_retries
       THEN /\ model_calls' = model_calls + 1
            /\ svc_pc' = "calling"
            /\ UNCHANGED << svc_cache, svc_result >>
       ELSE /\ model_calls' = model_calls
            /\ svc_pc' = "ready"
            /\ svc_result' = SvcReturned(NoneValue)
            /\ svc_cache' =
                  SvcCacheSet(svc_cache,
                              SvcCacheKey(svc_args.start_date, svc_args.end_date,
                                          svc_args.metric_types),
                              NoneValue, now)
    /\ UNCHANGED << init_log, db_health, es_health, max_retries, svc_args, retries,
                    sleeps, model_returned, requests >>
    /\ UNCHANGED << now, etlVars, mpVars, directVars >>

(***************************************************************************)
(* The specification: the callers run one after the other, and the event  *)
(* loop starts the chunk tasks in the order of their creation.             *)
(***************************************************************************)
FirstPending(p, i) ==
    tasks[p] # << >> /\ \A j \in 1..(i - 1) : tasks[p][j].state # "pending"

Ended(p) == pc[p] \in {"Succeeded", "Failed"}

Step(p) ==
    \/ ExtractHit(p)
    \/ ExtractMiss(p)
    \/ ExtractConnect(p)
    \/ ExtractRequisitions(p)
    \/ ExtractCandidates(p)
    \/ ExtractCommunications(p)
    \/ TransformSplit(p)
    \/ \E i \in 1..Workers : FirstPending(p, i) /\ RunTask(p, i)
    \/ GatherDone(p)
    \/ GatherRaise(p)
    \/ LoadConnect(p)
    \/ LoadBegin(p)
    \/ LoadInsertMetrics(p)
    \/ LoadInsertSkills(p)
    \/ LoadCommit(p)
    \/ LoadBulk(p)

Next ==
    \/ Tick
    \/ SourceInsert
    \/ \E p \in Callers : (\A q \in Callers \ {p} : ~Busy(q)) /\ Call(p)
    \/ \E p \in Callers : Step(p)

Spec == Init /\ [][Next]_vars

(***************************************************************************)
(* One run of the pipeline, on an empty extract cache, when a chunk task   *)
(* may be suspended while it waits for the MetricsProcessor                *)
(* (etl_service.py:300-315 awaits it three times): the pending tasks of    *)
(* the transform complete in any order.                                    *)
(***************************************************************************)
OneCaller == CHOOSE p \in Callers : TRUE

NextAnyOrder ==
    \/ Tick
    \/ SourceInsert
    \/ Call(OneCaller)
    \/ ExtractMiss(OneCaller)
    \/ ExtractConnect(OneCaller)
    \/ ExtractRequisitions(OneCaller)
    \/ ExtractCandidates(OneCaller)
    \/ ExtractCommunications(OneCaller)
    \/ TransformSplit(OneCaller)
    \/ \E i \in 1..Workers : RunTask(OneCaller, i)
    \/ GatherDone(OneCaller)
    \/ GatherRaise(OneCaller)
    \/ LoadConnect(OneCaller)
    \/ LoadBegin(OneCaller)
    \/ LoadInsertMetrics(OneCaller)
    \/ LoadInsertSkills(OneCaller)
    \/ LoadCommit(OneCaller)
    \/ LoadBulk(OneCaller)

SpecAnyOrder == Init /\ [][NextAnyOrder]_vars

(***************************************************************************)
(* The MetricsProcessor called directly, on every list of at most          *)
(* MaxRecords records.                                                     *)
(***************************************************************************)
RecordLists == UNION { [1..n -> MetricSamples] : n \in 0..MaxRecords }

InitProcessor ==
    /\ InitEtl
    /\ raw_metrics \in RecordLists
    /\ range_args \in RangeArgs
    /\ date_range = NoRange
    /\ mp_method = "none"
    /\ mp_result = NoCall
    /\ mp_pc = "idle"
    /\ InitSvc

\* The caller builds its DateRange first and calls the processor with it.
NextProcessor ==
    \/ Tick
    \/ ConstructDateRange
    \/ date_range # NoRange /\ ProcessRecruitmentMetricsLookup
    \/ ProcessRecruitmentMetricsCompute
    \/ date_range # NoRange /\ AnalyzeTimeToHire

SpecProcessor == InitProcessor /\ [][NextProcessor]_vars

(***************************************************************************)
(* The AnalyticsService: it is constructed with some max_retries and       *)
(* initialized, and once initialize has returned the caller makes its      *)
(* requests one after the other.                                           *)
(***************************************************************************)
InitService ==
    /\ InitEtl
    /\ raw_metrics = << >>
    /\ date_range = CHOOSE r \in Ranges : TRUE
    /\ mp_method = "none"
    /\ mp_result = NoCall
    /\ mp_pc = "idle"
    /\ range_args = date_range
    /\ \E m \in RetryConfigs : InitSvcWith(m)

NextService ==
    \/ Tick
    \/ DbManagerInitialize
    \/ EsManagerInitialize
    \/ AnalyticsModelInitialize
    \/ CheckDbHealth
    \/ CheckEsHealth
    \/ GetRecruitmentMetrics
    \/ GetMetricsReturns
    \/ GetMetricsRaises
    \/ RetryAfterSleep

SpecService == InitService /\ [][NextService]_vars

(***************************************************************************)
(* Overlapping extracts: the callers' runs are tasks of one event loop, so *)
(* a second extract_recruitment_data may start while the first is          *)
(* suspended at one of its awaits (etl_service.py:78-112).  The steps of   *)
(* the extracts interleave in any order, and the clock and the upstream    *)
(* table may change between any two of them.  A run stops here once its    *)
(* extract has returned.                                                   *)
(***************************************************************************)
TickAnyTime ==
    /\ now < MaxTime
    /\ now' = now + 1
    /\ UNCHANGED << srcReqs, etlCache, mpVars, sinkVars, pc, step, range, reads,
                    extractLocals, raw_data, tasks, processed_data, loadLocals,
                    attempts, delays, outcome >>
    /\ UNCHANGED callVars

InsertAnyTime ==
    /\ Len(srcReqs) < MaxRows
    /\ \E rec \in SampleReqs : srcReqs' = Append(srcReqs, rec)
    /\ UNCHANGED << now, etlCache, mpVars, sinkVars, pc, step, range, reads,
                    extractLocals, raw_data, tasks, processed_data, loadLocals,
                    attempts, delays, outcome >>
    /\ UNCHANGED callVars

NextOverlap ==
    \/ TickAnyTime
    \/ InsertAnyTime
    \/ \E p \in Callers : Call(p)
    \/ \E p \in Callers : ExtractHit(p)
    \/ \E p \in Callers : ExtractMiss(p)
    \/ \E p \in Callers : ExtractConnect(p)
    \/ \E p \in Callers : ExtractRequisitions(p)
    \/ \E p \in Callers : ExtractCandidates(p)
    \/ \E p \in Callers : ExtractCommunications(p)

SpecOverlap == Init /\ [][NextOverlap]_vars

(***************************************************************************)
(* Properties of the extraction.                                           *)
(***************************************************************************)
NoReads == [pg |-> 0, mongo |-> 0]

\* Caller q's extract looks into the cache in this step while the bundle that
\* the earlier call of p put there for the same range has not expired.
SecondCallWithinTtl(p, q) ==
    /\ p # q
    /\ raw_data[p] # None
    /\ range[p] = range[q]
    /\ pc[q] = "Extracting" /\ step[q] = "cache" /\ step'[q] # "cache"
    /\ CacheContains(etlCache, CacheKey(range[q]), now)

C2_FailedExtractLeavesCache ==
    [][\A p \in Callers :
         /\ (pc[p] = "Extracting" /\ pc'[p] \in {"Extracting", "Failed"})
               => etlCache' = etlCache
         /\ (pc[p] = "Extracting" /\ pc'[p] = "Failed")
               => /\ raw_data'[p] = None
                  /\ outcome'[p].kind = "raised"
                  /\ outcome'[p].error.stage = "extract"]_vars

\* C2 witness: the communications read failed after requisition and
\* candidate pages had been collected; the cache holds the entry of an
\* earlier call and none for the failed one.
C2_Witness ==
    \E p \in Callers :
        /\ pc[p] = "Failed" /\ outcome[p].error = ExtractError("communications")
        /\ reads[p].pg > 0 /\ reads[p].mongo > 1
        /\ etlCache[CacheKey(range[p])] = None
        /\ \E k \in EtlKeys : etlCache[k] # None

(***************************************************************************)
(* Properties of the orchestration.                                        *)
(***************************************************************************)
StageOrder ==
    { << "Idle", "Extracting" >>,
      << "Extracting", "Transforming" >>, << "Extracting", "Failed" >>,
      << "Transforming", "Loading" >>, << "Transforming", "Failed" >>,
      << "Loading", "Succeeded" >>, << "Loading", "Failed" >> }

RowsBy(rows, p) == { r \in rows : r.by = p }
\* Nothing of p's run has reached a sink.
NothingLoaded(p) ==
    RowsBy(pgMetrics, p) = {} /\ RowsBy(pgSkills, p) = {} /\ RowsBy(esDocs, p) = {}

\* C3: within one run the stages follow Idle -> Extracting -> Transforming
\* -> Loading -> {Succeeded, Failed}; Transform starts only with the bundle
\* of a successful Extract, Load only with the data of a successful
\* Transform, Succeeded only after the load has written both sinks, and
\* nothing follows Failed.
C3_StageOrder ==
    [][\A p \in Callers :
         pc'[p] # pc[p] =>
            /\ << pc[p], pc'[p] >> \in StageOrder
            /\ pc'[p] = "Transforming" => raw_data'[p] # None
            /\ pc'[p] = "Loading" =>
                  /\ processed_data'[p] # None
                  /\ \A i \in 1..Workers : tasks[p][i].state = "done"
            /\ pc'[p] = "Succeeded" =>
                  /\ RowsBy(pgMetrics', p) = MetricRows(p)
                  /\ RowsBy(pgSkills', p) = SkillRows(p)
                  /\ RowsBy(esDocs', p) = MetricRows(p)
                  /\ outcome'[p] = RunReturn(TRUE)]_vars

\* C3 witness: one run has gone through every stage to Succeeded and
\* another one has ended in Failed.
C3_Witness ==
    \E p, q \in Callers :
        /\ pc[p] = "Succeeded" /\ attempts[p] = [extract |-> 1, transform |-> 1, load |-> 1]
        /\ pc[q] = "Failed"

\* The extract attempts of p that failed.
ExtractFailures(p) ==
    attempts[p].extract - (IF raw_data[p] # None THEN 1 ELSE 0)

\* C4: a run whose Extract step failed f < max_retries times and then
\* succeeded has got its bundle after f + 1 attempts and f backoff delays
\* 2^1, ..., 2^f.
C4_RetryThenSucceed ==
    \A p \in Callers :
        (Ended(p) /\ ExtractFailures(p) < MAX_RETRIES) =>
            /\ raw_data[p] # None
            /\ attempts[p].extract = ExtractFailures(p) + 1
            /\ delays[p] = [k \in 1..ExtractFailures(p) |-> 2^k]

\* C5: a run that ends in Failed because Extract (or Load) failed has
\* attempted that step exactly max_retries times.
C5_RetriesExhausted ==
    \A p \in Callers :
        (pc[p] = "Failed" /\ outcome[p].error.stage \in {"extract", "load"}) =>
            attempts[p][outcome[p].error.stage] = MAX_RETRIES

\* C6: Transform is invoked at most once per run; when it fails the run is
\* Failed without a retry of Transform, without a backoff delay and without
\* a Load attempt.
C6_TransformNotRetried ==
    \A p \in Callers :
        /\ attempts[p].transform <= 1
        /\ (Ended(p) /\ outcome[p].error.stage = "transform") =>
              /\ pc[p] = "Failed"
              /\ attempts[p].transform = 1
              /\ delays[p] = << >>
              /\ attempts[p].load = 0
              /\ txn[p] = None /\ bulkSent[p] = 0
              /\ NothingLoaded(p)

\* C6 witness: a run has failed in Transform.
C6_Witness ==
    \E p \in Callers :
        /\ pc[p] = "Failed" /\ outcome[p].error.stage = "transform"
        /\ attempts[p].transform = 1

\* C7: a run never raises past its boundary: it ends by returning a
\* structured outcome.
C7_AlwaysReturns ==
    \A p \in Callers : Ended(p) => outcome[p].kind = "returned"

StageTag(stage) ==
    CASE stage = "Extracting" -> "extract"
      [] stage = "Transforming" -> "transform"
      [] stage = "Loading" -> "load"
      [] OTHER -> "none"

C9_ChunkFailureFailsTransform ==
    \A p \in Callers :
        (tasks[p] # << >> /\ Raised(tasks[p]) # {} /\ pc[p] # "Transforming") =>
            /\ pc[p] = "Failed"
            /\ outcome[p] = RunRaise(TransformError("process_recruitment_metrics"))
            /\ processed_data[p] = None
            /\ NothingLoaded(p)

\* C9 witness: the transform has failed although the task of another chunk
\* had completed.
C9_Witness ==
    \E p \in Callers :
        /\ pc[p] = "Failed" /\ outcome[p].error.stage = "transform"
        /\ \E i, j \in 1..Workers :
              tasks[p][i].state = "done" /\ tasks[p][j].state = "failed"

Committed(p) == RowsBy(pgMetrics, p) # {} \/ RowsBy(pgSkills, p) # {}

\* C10: load commits only when both bulk inserts succeeded, so the tables
\* hold either all rows of a call or none; when an insert fails nothing of
\* the call stays in either table, the load fails and no bulk request goes
\* to the search sink.
C10_CommitOnlyAfterBothInserts ==
    \A p \in Callers :
        /\ Committed(p) =>
              /\ RowsBy(pgMetrics, p) = MetricRows(p)
              /\ RowsBy(pgSkills, p) = SkillRows(p)
        /\ outcome[p].error \in {LoadError("insert_metrics"), LoadError("insert_skills")} =>
              /\ pc[p] = "Failed"
              /\ ~Committed(p)
              /\ txn[p] = None
              /\ bulkSent[p] = 0
              /\ RowsBy(esDocs, p) = {}

\* C10 witness: the second insert failed after the first one had written
\* its rows inside the transaction.
C10_Witness ==
    \E p \in Callers :
        /\ pc[p] = "Failed" /\ outcome[p].error = LoadError("insert_skills")
        /\ MetricRows(p) # {}


(***************************************************************************)
(* Properties of the load: the search sink.                                *)
(***************************************************************************)
\* C11: the bulk-index request of a load is issued only after the load's
\* relational transaction has committed, and it carries exactly the
\* recruitment-metrics records inserted in that transaction: the search sink
\* receives no other record of the run, and all of them when the request
\* succeeds.
C11_BulkAfterCommitSameRecords ==
    [][\A p \in Callers :
          bulkSent'[p] # bulkSent[p] =>
             /\ txn[p] = None
             /\ RowsBy(pgMetrics, p) = MetricRows(p)
             /\ RowsBy(esDocs', p) \subseteq RowsBy(pgMetrics, p)
             /\ pc'[p] = "Succeeded" => RowsBy(esDocs', p) = RowsBy(pgMetrics, p)]_vars

\* A load has committed its rows and indexed the same records.
C11_Witness ==
    \E p \in Callers :
        /\ pc[p] = "Succeeded" /\ bulkSent[p] = 1
        /\ RowsBy(pgMetrics, p) # {}
        /\ RowsBy(esDocs, p) = RowsBy(pgMetrics, p)

\* C12: when the bulk-index step fails after the commit, the load reports a
\* load failure and the rows it committed to the relational sink stay
\* committed, then and ever after.
C12_IndexFailureKeepsCommit ==
    [][\A p \in Callers :
          /\ (step[p] = "bulk" /\ pc'[p] = "Failed") =>
                outcome'[p] = RunRaise(LoadError("bulk"))
          /\ ((step[p] = "bulk" /\ pc'[p] = "Failed")
                 \/ outcome[p] = RunRaise(LoadError("bulk"))) =>
                /\ RowsBy(pgMetrics', p) = MetricRows(p)
                /\ RowsBy(pgSkills', p) = SkillRows(p)]_vars

\* A run has failed in the bulk-index step and its rows are in the
\* relational sink.
C12_Witness ==
    \E p \in Callers :
        /\ outcome[p] = RunRaise(LoadError("bulk"))
        /\ RowsBy(pgMetrics, p) # {} /\ RowsBy(pgSkills, p) # {}

\* C13: two loads of identical input leave the relational sink with as many
\* rows as one load, and the search sink with one entry per record.
C13_LoadIsIdempotent ==
    \A p, q \in Callers :
        ( /\ p # q
          /\ pc[p] = "Succeeded" /\ pc[q] = "Succeeded"
          /\ processed_data[p] = processed_data[q] ) =>
            /\ Cardinality(pgMetrics) = Cardinality(MetricRows(p))
            /\ Cardinality(pgSkills) = Cardinality(SkillRows(p))
            /\ Cardinality(esDocs) = Cardinality(MetricRows(p))


(***************************************************************************)
(* Properties of the MetricsProcessor.                                     *)
(***************************************************************************)
CalledMetrics == mp_method = "process_recruitment_metrics" /\ mp_pc = "idle"
CalledTimeToHire == mp_method = "analyze_time_to_hire"

Filled(records) == Len(SelectSeq(records, LAMBDA x : x.status = "filled"))
Days(records) == { records[i].created_at : i \in 1..Len(records) }

RECURSIVE SumFilled(_)
SumFilled(chunks) ==
    IF chunks = << >> THEN 0 ELSE Filled(Head(chunks)) + SumFilled(Tail(chunks))
RECURSIVE SumLen(_)
SumLen(chunks) ==
    IF chunks = << >> THEN 0 ELSE Len(Head(chunks)) + SumLen(Tail(chunks))
RECURSIVE ProdLen(_)
ProdLen(chunks) ==
    IF chunks = << >> THEN 1 ELSE Len(Head(chunks)) * ProdLen(Tail(chunks))

\* The chunks of a split of records into k near-equal contiguous parts.
SplitInto(records, k) == [i \in 1..k |-> ArraySplit(records, k, i)]

MeanOfChunkRatesDiffers(chunks, n, d) ==
    LET L == ProdLen(chunks)
        scaled == [i \in 1..Len(chunks) |->
                     [total_reqs |-> Filled(chunks[i]) * 100 * (L \div Len(chunks[i]))]]
    IN SumField(scaled, "total_reqs") * d # n * L * Len(chunks)

WellFormed(records) == \A i \in 1..Len(records) : records[i].numeric

\* C16: for every set of well-formed records, the empty one included, the
\* aggregation gives a requisition_fill_rate in [0, 100], which is 0 when
\* total_requisitions is 0.
C16_FillRateInRange ==
    (CalledMetrics /\ WellFormed(raw_metrics)) =>
        /\ mp_result.ok
        /\ LET m == mp_result.metrics[1]
           IN /\ m.requisition_fill_rate.kind = "num"
              /\ 0 <= m.requisition_fill_rate.n
              /\ m.requisition_fill_rate.n <= 100 * m.requisition_fill_rate.d
              /\ m.total_requisitions = 0 => m.requisition_fill_rate.n = 0

\* The frame analyze_time_to_hire computes on (lines 147-149).
Frame == SelectSeq(raw_metrics, LAMBDA x : InRange(x.created_at, date_range))

\* The records of the weekly bucket that ends with day b.
InBucket(b) == SelectSeq(Frame, LAMBDA x : b - 7 < x.created_at /\ x.created_at <= b)

\* C17: every TrendPoint has a confidence >= 0, and the point of a bucket
\* of exactly one record has confidence 0.
C17_ConfidenceNonNegative ==
    (CalledTimeToHire /\ mp_result.ok) =>
        LET trend_data == mp_result.analytics[1].trend_data
        IN \A k \in 1..Len(trend_data) :
              /\ trend_data[k].confidence.kind = "num"
              /\ trend_data[k].confidence.n >= 0
              /\ Len(InBucket(trend_data[k].date)) = 1 =>
                    trend_data[k].confidence.n = 0

Increasing(trend_data) ==
    \A k \in 1..(Len(trend_data) - 1) : trend_data[k].date < trend_data[k + 1].date

\* C18 (as amended): exactly one TrendPoint per weekly bucket that holds a
\* record and none for an empty bucket, in increasing date order, and each
\* point's date is the last day of its bucket.
C18_OnePointPerBucketDatedAtEnd ==
    (CalledTimeToHire /\ mp_result.ok) =>
        LET trend_data == mp_result.analytics[1].trend_data
        IN /\ Increasing(trend_data)
           /\ \A k \in 1..Len(trend_data) :
                 /\ trend_data[k].date % 7 = 0
                 /\ InBucket(trend_data[k].date) # << >>
           /\ \A i \in 1..Len(Frame) :
                 \E k \in 1..Len(trend_data) :
                    /\ trend_data[k].date - 7 < Frame[i].created_at
                    /\ Frame[i].created_at <= trend_data[k].date

\* Two points whose buckets have an empty bucket between them.
C18_Witness ==
    /\ CalledTimeToHire /\ mp_result.ok
    /\ LET trend_data == mp_result.analytics[1].trend_data
       IN /\ Len(trend_data) = 2
          /\ trend_data[2].date - trend_data[1].date > 7
          /\ Len(InBucket(trend_data[1].date)) = 2

\* C18 as stated: one TrendPoint per bucket that holds a record and none
\* for an empty bucket, in increasing date order, each point's date being
\* the first day of its bucket.
C18_OnePointPerBucketDatedAtStart ==
    (CalledTimeToHire /\ mp_result.ok) =>
        LET trend_data == mp_result.analytics[1].trend_data
            StartsAt(b) == SelectSeq(Frame, LAMBDA x : b <= x.created_at
                                                      /\ x.created_at < b + 7)
        IN /\ Increasing(trend_data)
           /\ \A k \in 1..Len(trend_data) : StartsAt(trend_data[k].date) # << >>
           /\ \A i \in 1..Len(Frame) :
                 \E k \in 1..Len(trend_data) :
                    /\ trend_data[k].date <= Frame[i].created_at
                    /\ Frame[i].created_at < trend_data[k].date + 7

\* C19: when the global mean of time_to_hire is 0 the seasonal-index map
\* has no entry; otherwise it has one entry, month mean / global mean, for
\* every calendar month of the data.
C19_SeasonalIndexDefined ==
    (CalledTimeToHire /\ mp_result.ok) =>
        LET seasonal_patterns == mp_result.analytics[1].seasonal_patterns
            months == { Month(d) : d \in Days(Frame) }
            inMonth(m) == SelectSeq(Frame, LAMBDA x : Month(x.created_at) = m)
        IN IF Frame # << >> /\ SumDays(Frame) = 0
           THEN DOMAIN seasonal_patterns = {}
           ELSE /\ DOMAIN seasonal_patterns = months
                /\ \A m \in months :
                      /\ seasonal_patterns[m].kind = "num"
                      /\ seasonal_patterns[m].n * Len(inMonth(m)) * SumDays(Frame)
                           = seasonal_patterns[m].d * SumDays(inMonth(m)) * Len(Frame)

(***************************************************************************)
(* Properties of the transform: the chunks.                                *)
(***************************************************************************)
RECURSIVE Concat(_)
Concat(chunks) ==
    IF chunks = << >> THEN << >> ELSE Head(chunks) \o Concat(Tail(chunks))

\* C20: the requisitions, and the candidates, are split into exactly
\* worker_count chunks that follow one another in the original order and
\* together hold every record once; one task is dispatched per chunk.
C20_ChunksPartitionInOrder ==
    \A p \in Callers :
        tasks[p] # << >> =>
            /\ Len(tasks[p]) = Workers
            /\ Concat([i \in 1..Len(tasks[p]) |-> ReqChunk(p, i)])
                 = raw_data[p][1].requisitions
            /\ Concat([i \in 1..Len(tasks[p]) |-> CandChunk(p, i)])
                 = raw_data[p][1].candidates

\* The tasks of a transform whose requisitions do not divide evenly.
C20_Witness ==
    \E p \in Callers :
        /\ tasks[p] # << >>
        /\ Len(raw_data[p][1].requisitions) % Workers # 0
        /\ raw_data[p][1].candidates # << >>

\* C21 as stated: when worker_count does not divide the number of records,
\* every chunk but the last has floor(n/k) records and the last chunk has
\* the remainder as well, n - (k-1)*floor(n/k) records.
C21_RemainderInLastChunk ==
    \A p \in Callers :
        LET n == Len(raw_data[p][1].requisitions)
        IN (tasks[p] # << >> /\ n % Workers # 0) =>
              /\ \A i \in 1..(Workers - 1) : Len(ReqChunk(p, i)) = n \div Workers
              /\ Len(ReqChunk(p, Workers)) = n - (Workers - 1) * (n \div Workers)

\* C21, amended: when worker_count does not divide the number of records,
\* the remainder is spread over the first chunks, one record each: the
\* first n mod k chunks have floor(n/k) + 1 records and the others
\* floor(n/k), so the last chunk is never larger than the first.
C21_RemainderInFirstChunks ==
    \A p \in Callers :
        LET n == Len(raw_data[p][1].requisitions)
        IN (tasks[p] # << >> /\ n % Workers # 0) =>
              /\ \A i \in 1..Workers :
                    Len(ReqChunk(p, i))
                      = (n \div Workers) + (IF i <= n % Workers THEN 1 ELSE 0)
              /\ Len(ReqChunk(p, Workers)) = n \div Workers
              /\ Len(ReqChunk(p, 1)) = (n \div Workers) + 1

\* A transform whose first chunk of requisitions is larger than its last.
C21_Witness ==
    \E p \in Callers :
        /\ tasks[p] # << >>
        /\ Len(raw_data[p][1].requisitions) % Workers # 0
        /\ Len(ReqChunk(p, 1)) > Len(ReqChunk(p, Workers))
        /\ \E i \in 1..Workers : tasks[p][i].state # "pending"

(***************************************************************************)
(* Properties of the transform: the concurrent chunk tasks.                *)
(***************************************************************************)
\* The record m carries the figures of the record x.
SameData(m, x) == \A f \in DOMAIN x : m[f] = x[f]

\* What the chunk i of the bundle of p gives when it is processed alone.
ChunkAlone(p, i) ==
    [ metrics |-> ProcessMetrics(ReqChunk(p, i)),
      skills |-> SkillsData(CandChunk(p, i)),
      time_to_hire |-> TimeToHire(ReqChunk(p, i)) ]

\* C22: for a fixed bundle and worker count the merged output of the
\* transform is the same whatever the order in which the chunk tasks
\* complete: entry i of each merged list is what chunk i gives when it is
\* processed alone (the created_at stamp of a record, the clock reading of
\* the task that computed it, is not part of the comparison).
C22_MergedOutputIndependentOfOrder ==
    \A p \in Callers :
        processed_data[p] # None =>
            LET out == processed_data[p][1]
            IN /\ Len(out.recruitment_metrics) = Workers
               /\ Len(out.skill_analytics) = Workers
               /\ Len(out.time_to_hire) = Workers
               /\ \A i \in 1..Workers :
                     /\ Convertible(ReqChunk(p, i))
                     /\ SameData(out.recruitment_metrics[i], ChunkAlone(p, i).metrics)
                     /\ out.skill_analytics[i] = ChunkAlone(p, i).skills
                     /\ out.time_to_hire[i] = ChunkAlone(p, i).time_to_hire

\* A merged output whose last chunk was computed before its first chunk.
C22_Witness ==
    \E p \in Callers :
        /\ processed_data[p] # None
        /\ processed_data[p][1].recruitment_metrics[Workers].created_at
             < processed_data[p][1].recruitment_metrics[1].created_at

TransformFailed(p) == pc[p] = "Failed" /\ outcome[p].error.stage = "transform"

\* C23: when a chunk task fails during transform, the sibling tasks still
\* outstanding are not cancelled: the failure leaves every task as it was, a
\* pending sibling stays pending until it runs and then ends done, with
\* the result of its chunk, or failed; and nothing of the
\* siblings' results appears in an output of the failed transform: it
\* hands over no merged data and nothing is loaded.
C23_SiblingsRunOnResultsDiscarded ==
    [][\A p \in Callers :
         /\ (pc[p] = "Transforming" /\ pc'[p] = "Failed") =>
                /\ tasks'[p] = tasks[p]
                /\ processed_data'[p] = None
         /\ TransformFailed(p) =>
                /\ \A i \in 1..Workers :
                      /\ tasks'[p][i].state \in {"pending", "done", "failed"}
                      /\ tasks[p][i].state # "pending" => tasks'[p][i] = tasks[p][i]
                      /\ (tasks[p][i].state = "pending" /\ tasks'[p][i].state = "done")
                            => SameData(tasks'[p][i].result.metrics[1],
                                        ChunkAlone(p, i).metrics)
                /\ processed_data'[p] = None
                /\ outcome'[p] = outcome[p]
                /\ RowsBy(pgMetrics', p) = {} /\ RowsBy(pgSkills', p) = {}
                /\ RowsBy(esDocs', p) = {}]_vars

\* C23 witness: the transform has failed on its first chunk and the task of
\* a later chunk has run to completion; its result is in no output.
C23_Witness ==
    \E p \in Callers :
        /\ TransformFailed(p)
        /\ tasks[p][1].state = "failed"
        /\ tasks[p][Workers].state = "done"
        /\ tasks[p][Workers].result.metrics # << >>
        /\ processed_data[p] = None

\* The task i of p runs in this step.
Runs(p, i) ==
    /\ tasks[p] # << >> /\ tasks[p][i].state = "pending"
    /\ tasks'[p][i].state # "pending"

\* C24 as stated: the chunk tasks of one transform share no mutable state:
\* when a task runs after a sibling has run, it writes none of the
\* counters and cache entries the MetricsProcessor held after the sibling,
\* and it is served no cache entry.
C24_TasksShareNoState ==
    [][\A p \in Callers : \A i, j \in 1..Workers :
         (i # j /\ Runs(p, i) /\ tasks[p][j].state # "pending") =>
            /\ processing_stats' = processing_stats
            /\ \A k \in DOMAIN mpStamps :
                  k \in DOMAIN mpStamps' /\ mpStamps'[k] = mpStamps[k]
            /\ ~IsCacheValid(mpStamps, MetricsKey(ReqChunk(p, i), "weekly"), now)]_vars

(***************************************************************************)
(* Properties of the caches.                                               *)
(***************************************************************************)
\* Every entry of the MetricsProcessor cache is the whole value of one
\* write, with the timestamp of that write.
EntriesWhole(cache, stamps) ==
    /\ DOMAIN cache = DOMAIN stamps
    /\ \A k \in DOMAIN cache :
          /\ cache[k].created_at = stamps[k]
          /\ SameData(cache[k], ProcessMetrics(k[3]))

LookupStep ==
    /\ mp_pc = "idle" /\ now' = now
    /\ mp_method' = "process_recruitment_metrics"

\* The lookup of this step was a miss: the call goes on to compute.
LookupMissed == mp_pc' = "computing"

C27_ExpiredEntryEvicted ==
    LET key == MetricsKey(raw_metrics, "weekly")
    IN mp_pc = "computing" =>
          key \notin DOMAIN mpCache /\ key \notin DOMAIN mpStamps

\* C28: the hit counter and the miss counter never decrease, every lookup
\* adds exactly 1 to exactly one of them, the hit counter when the entry is
\* served and the miss counter when the call goes on to compute, and no
\* other step changes either.
C28_CountersCountLookups ==
    [][/\ processing_stats'.cache_hits >= processing_stats.cache_hits
       /\ processing_stats'.cache_misses >= processing_stats.cache_misses
       /\ LookupStep =>
             IF LookupMissed
             THEN /\ processing_stats'.cache_misses = processing_stats.cache_misses + 1
                  /\ processing_stats'.cache_hits = processing_stats.cache_hits
             ELSE /\ processing_stats'.cache_hits = processing_stats.cache_hits + 1
                  /\ processing_stats'.cache_misses = processing_stats.cache_misses
       /\ ~LookupStep =>
             /\ processing_stats'.cache_hits = processing_stats.cache_hits
             /\ processing_stats'.cache_misses = processing_stats.cache_misses]_vars

\* C28 witness: lookups of both kinds have been counted, a hit after more
\* than one miss.
C28_Witness ==
    /\ processing_stats.cache_hits >= 1
    /\ processing_stats.cache_misses >= 2
    /\ mp_pc = "idle" /\ mp_method = "process_recruitment_metrics" /\ mp_result.ok

\* C29 as stated: every computation of the MetricsProcessor, the metrics
\* aggregation and the time-to-hire analysis alike, leaves its final result
\* in the cache under a key built from the aggregation level and the
\* records.
C29_EveryComputationCached ==
    /\ (CalledMetrics /\ mp_result.ok) =>
          /\ MetricsKey(raw_metrics, "weekly") \in DOMAIN mpCache
          /\ mpCache[MetricsKey(raw_metrics, "weekly")] = mp_result.metrics[1]
    /\ (CalledTimeToHire /\ mp_result.ok) =>
          \E k \in DOMAIN mpCache : k[1] = "time_to_hire" /\ k[3] = raw_metrics

RequestStep == requests' = requests + 1
\* The cache key of the request's three arguments.
RequestKey(a) == SvcCacheKey(a.start_date, a.end_date, a.metric_types)
InvalidRange(a) == a.end_date < a.start_date

\* C31: a request whose date range is invalid (end < start) fails at the
\* construction of the DateRange without any retry: the request ends at once
\* with the validation error, having made no call of the metrics model,
\* requested no backoff sleep and stored nothing in the cache.
C31_InvalidRangeFailsBeforeModel ==
    [][(RequestStep /\ InvalidRange(svc_args')) =>
          /\ svc_result' = SvcRaised("ValidationError", 0)
          /\ svc_pc' = "ready"
          /\ model_calls' = 0
          /\ retries' = 0
          /\ sleeps' = << >>
          /\ svc_cache' = svc_cache]_vars

\* C31 witness: a request with end < start has ended with the validation
\* error while the cache holds nothing for its key.
C31_Witness ==
    /\ requests > 0
    /\ InvalidRange(svc_args)
    /\ svc_result.kind = "raised"
    /\ svc_result.error = "ValidationError"
    /\ model_calls = 0
    /\ svc_cache[RequestKey(svc_args)] = None

(***************************************************************************)
(* Properties of the bundle objects handed from stage to stage.            *)
(***************************************************************************)
\* The run of p holds, in raw_data, a bundle its extract has returned.
HoldsBundle(p) == raw_data[p] # None /\ ~Ended(p)

\* C32 as stated: once extract has returned a bundle to the orchestrator,
\* nothing of the extractor, its cache included, still refers to that same
\* object, and no other run holds it.
C32_ExtractorKeepsNoReference ==
    \A p \in Callers :
        HoldsBundle(p) =>
           /\ \A k \in EtlKeys :
                 etlCache[k] # None => bundle_ids.cached[k] # bundle_ids.held[p]
           /\ \A q \in Callers \ {p} :
                 HoldsBundle(q) => bundle_ids.held[q] # bundle_ids.held[p]

\* The last request has ended, the model was called, and every call of the
\* model raised.
AllAttemptsFailed ==
    /\ requests > 0
    /\ svc_pc = "ready"
    /\ model_calls > 0
    /\ retries = model_calls

\* C33: when the metrics model fails on every attempt of a request, the
\* request has called it exactly max_retries times, has slept 2^1, ...,
\* 2^(max_retries - 1) between the attempts and not after the last one, and
\* raises the exception of the last attempt; a request that ends with the
\* model's exception is such a request.
C33_RetriesThenRaisesLast ==
    /\ AllAttemptsFailed =>
          /\ model_calls = max_retries
          /\ sleeps = [i \in 1..(max_retries - 1) |-> 2 ^ i]
          /\ svc_result = SvcRaised("ModelError", max_retries)
    /\ (svc_result.kind = "raised" /\ svc_result.error = "ModelError") =>
          AllAttemptsFailed

\* C33 witness: with max_retries = 3 the model has failed three times and
\* the request has slept twice.
C33_Witness ==
    /\ AllAttemptsFailed
    /\ max_retries = MAX_RETRIES
    /\ Len(sleeps) = max_retries - 1
    /\ svc_result.kind = "raised"

\* The key (start_date, end_date, metric_types) of a request's arguments.
KeyOf(a) == << "metrics", a.start_date, a.end_date, a.metric_types >>
\* The value v is what the model produces for the arguments a.
ProducedFor(v, a) ==
    /\ v.kind = "metrics"
    /\ v.start_date = a.start_date
    /\ v.end_date = a.end_date
    /\ v.metric_types = a.metric_types
\* This step is the return of the model to the request that awaits it.
ModelReturnStep == svc_pc = "calling" /\ svc_pc' = "ready" /\ svc_result'.kind = "returned"

\* C34: a request returns the value the metrics model produced for it and
\* caches it under the key (start_date, end_date, metric_types); a later
\* request with the same three values within the time-to-live returns that
\* cached value without calling the model; and a request is served from the
\* cache only with a value produced for its own three values.
C34_ModelValueCachedByThreeValues ==
    [][/\ ModelReturnStep =>
            /\ ProducedFor(svc_result'.value, svc_args)
            /\ svc_result'.value \in model_returned'
            /\ svc_cache'[KeyOf(svc_args)] # None
            /\ svc_cache'[KeyOf(svc_args)][1].value = svc_result'.value
       /\ RequestStep =>
            LET entry == svc_cache[KeyOf(svc_args')]
            IN /\ (/\ entry # None
                   /\ entry[1].value.kind = "metrics"
                   /\ now - entry[1].value.at < SVC_CACHE_TTL) =>
                      /\ svc_result' = SvcReturned(entry[1].value)
                      /\ model_calls' = 0
                      /\ svc_pc' = "ready"
                      /\ model_returned' = model_returned
               /\ (svc_result'.kind = "returned" /\ svc_result'.value.kind = "metrics") =>
                      /\ ProducedFor(svc_result'.value, svc_args')
                      /\ svc_result'.value \in model_returned]_vars

\* C34 witness: the second request was served from the cache with a value
\* the model had produced, without a call of the model.
C34_Witness ==
    /\ requests = MaxRequests
    /\ svc_pc = "ready"
    /\ svc_result.kind = "returned"
    /\ svc_result.value \in model_returned
    /\ model_calls = 0

\* The dependency calls of a complete initialize, in their order.
InitOrder ==
    << "db_manager.initialize", "es_manager.initialize", "analytics_model.initialize",
       "db_manager.check_health", "es_manager.check_health" >>
IsPrefix(s, t) == Len(s) <= Len(t) /\ \A i \in 1..Len(s) : s[i] = t[i]
\* initialize has returned and the service takes requests.
Serving(position) == position \in { "ready", "calling", "sleeping" }

\* C35: initialize completes only when the database manager, the search
\* manager and the analytics model were initialized in that order and the
\* health check that follows reported postgres healthy, mongodb healthy and
\* the search cluster green; when a step fails, initialize raises the
\* RuntimeError 'Analytics service initialization failed' and makes none of
\* the later calls, then or afterwards.
C35_InitializeInOrderOrRuntimeError ==
    [][/\ IsPrefix(init_log', InitOrder)
       /\ (Serving(svc_pc') /\ ~Serving(svc_pc)) =>
             /\ init_log' = InitOrder
             /\ db_health'.postgres = "healthy"
             /\ db_health'.mongodb = "healthy"
             /\ es_health' = "green"
             /\ svc_result' = NoSvcResult
       /\ (svc_pc' = "failed" /\ svc_pc # "failed") =>
             /\ svc_result' = InitializeFailed
             /\ Len(init_log') = Len(init_log) + 1
       /\ svc_pc = "failed" =>
             /\ svc_pc' = "failed"
             /\ init_log' = init_log
             /\ svc_result' = InitializeFailed
             /\ requests' = 0]_vars

\* C35 witness: the search manager's initialize has failed; the analytics
\* model was not initialized, no health check was made, and initialize has
\* raised its RuntimeError.
C35_Witness ==
    /\ svc_pc = "failed"
    /\ init_log = << "db_manager.initialize", "es_manager.initialize" >>
    /\ svc_result = InitializeFailed

\* C36 as stated: for every configured max_retries, zero and negative
\* values included, a request either raises or returns a value that a
\* successful call of the metrics model produced, and the cache never
\* stores a value the model did not produce.
C36_OnlyModelValuesReturnedOrCached ==
    /\ (requests > 0 /\ svc_result.kind = "returned") =>
          svc_result.value \in model_returned
    /\ \A k \in DOMAIN svc_cache :
          svc_cache[k] # None => svc_cache[k][1].value \in model_returned

(***************************************************************************)
(* Properties of a failed call of the MetricsProcessor.                    *)
(***************************************************************************)
\* C37: when process_recruitment_metrics fails while computing, after its
\* lookup has missed, the failure is reported as an error, the result cache
\* and its timestamps are exactly as before the call and total_processed is
\* unchanged: the only change of the processor's state is that cache_misses
\* has grown by 1.
C37_FailedCallOnlyCountsMiss ==
    [][\A p \in Callers : \A i \in 1..Workers :
          (Runs(p, i) /\ tasks'[p][i].state = "failed") =>
             /\ tasks'[p][i].error = "process_recruitment_metrics"
             /\ tasks'[p][i].result = NoResult
             /\ mpCache' = mpCache
             /\ mpStamps' = mpStamps
             /\ processing_stats' =
                   [processing_stats EXCEPT !.cache_misses = @ + 1]]_vars

\* C37 witness: a call on records that cannot be converted has failed while
\* the cache held an entry and records of an earlier call had been counted.
C37_Witness ==
    \E p \in Callers : \E i \in 1..Workers :
        /\ tasks[p] # << >>
        /\ tasks[p][i].state = "failed"
        /\ ReqChunk(p, i) # << >>
        /\ DOMAIN mpCache # { }
        /\ processing_stats.total_processed > 0
        /\ processing_stats.cache_misses > 1

(***************************************************************************)
(* Properties of overlapping extracts.                                     *)
(***************************************************************************)
\* The extract of q missed the cache, read the stores and has returned the
\* bundle it built.
Stored(q) == raw_data[q] # None /\ bundle_ids.held[q] = q
\* The extract of p stores and returns the bundle it built in this step.
StoresNow(p) == raw_data[p] = None /\ raw_data'[p] # None /\ bundle_ids'.held[p] = p
\* The bundle holds every document of the two collections in the range and
\* the rows of the table in the range as far as they existed when they
\* were read.
CompleteBundle(b, r) ==
    /\ b.candidates = CandDocs(r)
    /\ b.communications = CommDocs(r)
    /\ IsPrefix(b.requisitions, ReqRows(r))

\* C38: when two extract calls for the same range both find the cache
\* empty, both read the upstream stores and each returns a complete bundle;
\* the call that finishes second leaves the bundle of the first as it was
\* returned, and the cache then holds for the range the complete bundle of
\* that second call, the one that wrote last.
C38_BothReadLastWriteWins ==
    [][\A p \in Callers : \A q \in Callers \ {p} :
          (StoresNow(p) /\ Stored(q) /\ range[p] = range[q]) =>
             /\ reads'[p].pg >= 1 /\ reads'[p].mongo >= 2
             /\ reads'[q].pg >= 1 /\ reads'[q].mongo >= 2
             /\ CompleteBundle(raw_data'[p][1], range[p])
             /\ CompleteBundle(raw_data'[q][1], range[q])
             /\ raw_data'[q] = raw_data[q]
             /\ etlCache'[CacheKey(range[p])] =
                   Some([value |-> raw_data'[p][1], expires |-> now + ETL_CACHE_TTL])]_vars

\* C38 witness: at time 0, before any entry can have expired, two extracts
\* for the same range have both built and returned a bundle; the bundles
\* differ and the cache holds the one with more rows, that of the call that
\* read and wrote later.
C38_Witness ==
    \E p \in Callers : \E q \in Callers \ {p} :
        /\ now = 0
        /\ Stored(p) /\ Stored(q)
        /\ range[p] = range[q]
        /\ Len(raw_data[q][1].requisitions) < Len(raw_data[p][1].requisitions)
        /\ etlCache[CacheKey(range[p])] # None
        /\ etlCache[CacheKey(range[p])][1].value = raw_data[p][1]

(***************************************************************************)
(* Properties of a transform with fewer requisitions than workers.         *)
(***************************************************************************)
\* The bundle of p has fewer requisitions than there are workers.
FewRequisitions(p) ==
    raw_data[p] # None /\ Len(raw_data[p][1].requisitions) < Workers
\* The task of p on chunk i has run and its chunk is empty.
RanOnEmptyChunk(p, i) ==
    /\ tasks[p] # << >>
    /\ tasks[p][i].state # "pending"
    /\ ReqChunk(p, i) = << >>
\* The aggregation of the records gets as far as line 195, the division by
\* the length of a chunk: the records were converted and there is a chunk.
DividesByLength(records) ==
    Convertible(records) /\ MetricsChunks(records) # << >>
\* The transform of p has handed, or hands, merged data to the load.
TransformReturned(p) ==
    processed_data[p] # None \/ pc[p] \in { "Loading", "Succeeded" }

\* C39 as stated: with fewer requisitions than workers, zero included, some
\* chunk is empty, the aggregation of the empty chunk fails because it
\* divides by the chunk length, and the transform fails rather than return a
\* bundle built from the other chunks.
C39_EmptyChunkFailsByDivision ==
    \A p \in Callers :
        FewRequisitions(p) =>
           /\ \E i \in 1..Workers : ReqChunk(p, i) = << >>
           /\ \A i \in 1..Workers :
                 RanOnEmptyChunk(p, i) =>
                    /\ tasks[p][i].state = "failed"
                    /\ DividesByLength(ReqChunk(p, i))
           /\ ~TransformReturned(p)

\* C39, amended: with fewer requisitions than workers, zero included, some
\* chunk is empty, the aggregation of the empty chunk fails, at the
\* conversion of its empty record list and before any division by a chunk
\* length is reached, and the transform fails rather than return a bundle
\* built from the other chunks.
C39_EmptyChunkFailsAtConversion ==
    \A p \in Callers :
        FewRequisitions(p) =>
           /\ \E i \in 1..Workers : ReqChunk(p, i) = << >>
           /\ \A i \in 1..Workers :
                 RanOnEmptyChunk(p, i) =>
                    /\ tasks[p][i].state = "failed"
                    /\ tasks[p][i].error = "process_recruitment_metrics"
                    /\ tasks[p][i].result = NoResult
                    /\ ~DividesByLength(ReqChunk(p, i))
           /\ ~TransformReturned(p)

\* C39 witness: one requisition and more than one worker; the task of the
\* first chunk is done, the task of an empty chunk has failed, and the
\* transform has failed.
C39_Witness ==
    \E p \in Callers : \E i \in 2..Workers :
        /\ FewRequisitions(p)
        /\ Len(raw_data[p][1].requisitions) = 1
        /\ tasks[p] # << >>
        /\ tasks[p][1].state = "done"
        /\ RanOnEmptyChunk(p, i)
        /\ tasks[p][i].state = "failed"
        /\ TransformFailed(p)

=============================================================================
